---- MODULE Spec2Model ----
(***************************************************************************)
(* A model of the clorm fact-base query engine.                            *)
(*                                                                         *)
(*   - _FactIndex and _FactMap (src/clorm/orm.py): the per-type record     *)
(*     store with its sorted-key indexes;                                  *)
(*   - _Select and _Delete (src/clorm/orm.py): the single-type query;      *)
(*   - FactBase (src/clorm/orm/factbase.py): the multi-type container,     *)
(*     its delayed initialisation, comparison and set algebra.             *)
(*                                                                         *)
(* The specifications share the variables:                                 *)
(*   SpecFM  drives one _FactMap directly (add/remove/discard/clear) with  *)
(*           records of its own and of another predicate type;             *)
(*   SpecIX  drives one indexed _FactMap and looks keys up with find;      *)
(*   SpecQ   drives one _FactMap through FactBase.add/select/delete;       *)
(*   SpecFB1, SpecFB2 drive two FactBase objects of                        *)
(*           src/clorm/orm/factbase.py (construction, comparison, set      *)
(*           algebra, in-place updates);                                   *)
(*   SpecQB, SpecPH drive the query builder and its placeholders;          *)
(*   SpecSG  applies singleton/get_unique to bounded result sequences;     *)
(*   SpecOB  runs ordered selects; SpecW runs selects over where trees;    *)
(*   SpecFI  drives one _FactIndex; SpecRO runs every query operation;     *)
(*   SpecAS  formats a FactBase with asp_str.                              *)
(***************************************************************************)
EXTENDS Integers, Sequences, FiniteSets, TLC

\* ---------------------------------------------------------------------------
\* Bounds of the model
\* ---------------------------------------------------------------------------

\* field a of a fact ranges over 0..MaxKey
MaxKey == 2

\* the facts of predicate type A of a FactBase are A(1) .. A(MaxNum)
MaxNum == 2

\* no FactBase operation is started once a factory has been called more
\* often than this
MaxCalls == 2

\* ---------------------------------------------------------------------------
\* Records (facts) of the predicate type F the fact map is built for, and a
\* record of another predicate type G.
\* ---------------------------------------------------------------------------

Keys == 0..MaxKey

\* field b is two-valued, so that a key of field a can have a bucket of
\* more than one fact
BVals == {0, 1}

FFacts == [ptype : {"F"}, a : Keys, b : BVals]

GFacts == [ptype : {"G"}, a : {0}, b : {0}]

AnyFacts == FFacts \cup GFacts

\* the facts the queried fact base is populated with: one fact per key of
\* field a, and a second fact with the least key
QFacts == {f \in FFacts : f.a = 0 \/ f.b = 0}

\* the field paths of F that can be indexed
Paths == {"a", "b"}

\* the index lists a _FactMap can be constructed with (declaration order is
\* the index priority)
IndexLists == {<<>>, <<"a">>, <<"b">>, <<"a", "b">>, <<"b", "a">>}

Range(s) == {s[i] : i \in 1..Len(s)}

\* _FieldPathEval.__call__: the value of the field a path addresses
FieldPathEval(p, fact) == IF p = "a" THEN fact.a ELSE fact.b

\* the comparison operators of the operator module
CompOps == {"eq", "ne", "lt", "le", "gt", "ge"}

compop(op, x, y) ==
    CASE op = "eq" -> x = y
      [] op = "ne" -> x # y
      [] op = "lt" -> x < y
      [] op = "le" -> x <= y
      [] op = "gt" -> x > y
      [] op = "ge" -> x >= y

\* ---------------------------------------------------------------------------
\* State
\* ---------------------------------------------------------------------------

VARIABLES
    allfacts,   \* _FactMap._allfacts: the set of facts
    index,      \* the index list the _FactMap was constructed with
    findexes,   \* _FactMap._findexes: path -> [keylist, key2values]
    last,       \* the last operation: its arguments, error and return value
    fba,        \* a FactBase of src/clorm/orm/factbase.py (the receiver)
    fbb,        \* a second FactBase (the other operand)
    calls,      \* how often the factory of fba and of fbb has been called
    res,        \* the last FactBase operation: arguments, error, result
    query,      \* a query object (the receiver of the clause methods)
    qres        \* the last operation on the query object and its outcome

fmvars == <<allfacts, index, findexes, last>>

fbvars == <<fba, fbb, calls, res>>

qbvars == <<query, qres>>

vars == <<allfacts, index, findexes, last, fba, fbb, calls, res, query, qres>>

\* ---------------------------------------------------------------------------
\* bisect (the calls of _FactIndex)
\* ---------------------------------------------------------------------------

RECURSIVE bisect_left_loop(_, _, _, _)
bisect_left_loop(a, x, lo, hi) ==
    IF lo < hi
    THEN LET mid == (lo + hi) \div 2
         IN  IF a[mid + 1] < x
             THEN bisect_left_loop(a, x, mid + 1, hi)
             ELSE bisect_left_loop(a, x, lo, mid)
    ELSE lo

bisect_left(a, x) == bisect_left_loop(a, x, 0, Len(a))

RECURSIVE bisect_right_loop(_, _, _, _)
bisect_right_loop(a, x, lo, hi) ==
    IF lo < hi
    THEN LET mid == (lo + hi) \div 2
         IN  IF x < a[mid + 1]
             THEN bisect_right_loop(a, x, lo, mid)
             ELSE bisect_right_loop(a, x, mid + 1, hi)
    ELSE lo

bisect_right(a, x) == bisect_right_loop(a, x, 0, Len(a))

\* bisect.insort_left(a, x)
insort_left(a, x) ==
    LET posn == bisect_left(a, x)
    IN  SubSeq(a, 1, posn) \o <<x>> \o SubSeq(a, posn + 1, Len(a))

\* del a[posn] for a list and a 0-based position inside it
DelAt(a, posn) == SubSeq(a, 1, posn) \o SubSeq(a, posn + 2, Len(a))

\* ---------------------------------------------------------------------------
\* _FactIndex
\* ---------------------------------------------------------------------------

\* _FactIndex.__init__ and _FactIndex.clear: no key, no bucket
EmptyIndex == [keylist |-> <<>>, key2values |-> [k \in {} |-> {}]]

\* _FactIndex.add with the test for a key that is in the key list already
\* left out: every add inserts the key
FactIndexAddInsortsAlways(p, ix, fact) ==
    IF fact.ptype # "F"
    THEN [err |-> "TypeError", ix |-> ix]
    ELSE LET key == FieldPathEval(p, fact)
             k2v == [k \in DOMAIN ix.key2values \cup {key} |->
                        IF k = key
                        THEN (IF key \in DOMAIN ix.key2values
                              THEN ix.key2values[key] ELSE {}) \cup {fact}
                        ELSE ix.key2values[k]]
         IN  [err |-> "none",
              ix |-> [keylist |-> insort_left(ix.keylist, key), key2values |-> k2v]]

\* _FactIndex.add: the index after the call, and the error raised if any
FactIndexAdd(p, ix, fact) ==
    IF fact.ptype # "F"
    THEN [err |-> "TypeError", ix |-> ix]
    ELSE LET key == FieldPathEval(p, fact)
             k2v == [k \in DOMAIN ix.key2values \cup {key} |->
                        IF k = key
                        THEN (IF key \in DOMAIN ix.key2values
                              THEN ix.key2values[key] ELSE {}) \cup {fact}
                        ELSE ix.key2values[k]]
             posn == bisect_left(ix.keylist, key)
         IN  IF Len(ix.keylist) > posn /\ ix.keylist[posn + 1] = key
             THEN [err |-> "none", ix |-> [keylist |-> ix.keylist, key2values |-> k2v]]
             ELSE [err |-> "none",
                   ix |-> [keylist |-> insort_left(ix.keylist, key), key2values |-> k2v]]

\* _FactIndex.remove with the test "if values: return" left out: the key and
\* its bucket are dropped whether or not the bucket still holds a fact
FactIndexRemoveDropsBucket(p, ix, fact, raise_on_missing) ==
    IF fact.ptype # "F"
    THEN [err |-> "TypeError", ix |-> ix]
    ELSE LET key == FieldPathEval(p, fact)
         IN  IF key \notin DOMAIN ix.key2values
             THEN [err |-> IF raise_on_missing THEN "KeyError" ELSE "none", ix |-> ix]
             ELSE IF raise_on_missing /\ fact \notin ix.key2values[key]
             THEN [err |-> "KeyError", ix |-> ix]
             ELSE [err |-> "none",
                   ix |-> [keylist |-> SelectSeq(ix.keylist, LAMBDA k : k # key),
                           key2values |-> [k \in DOMAIN ix.key2values \ {key} |->
                                              ix.key2values[k]]]]

\* _FactIndex.remove: the index after the call, and the error raised if any
FactIndexRemove(p, ix, fact, raise_on_missing) ==
    IF fact.ptype # "F"
    THEN [err |-> "TypeError", ix |-> ix]
    ELSE LET key == FieldPathEval(p, fact)
         IN  IF key \notin DOMAIN ix.key2values
             THEN [err |-> IF raise_on_missing THEN "KeyError" ELSE "none", ix |-> ix]
             ELSE IF raise_on_missing /\ fact \notin ix.key2values[key]
             THEN [err |-> "KeyError", ix |-> ix]
             ELSE LET values == ix.key2values[key] \ {fact}
                  IN  IF values # {}
                      THEN [err |-> "none",
                            ix |-> [keylist |-> ix.keylist,
                                    key2values |-> [ix.key2values EXCEPT ![key] = values]]]
                      ELSE LET k2v == [k \in DOMAIN ix.key2values \ {key} |->
                                          ix.key2values[k]]
                               posn == bisect_left(ix.keylist, key)
                           IN  IF posn >= Len(ix.keylist)
                               THEN [err |-> "IndexError",
                                     ix |-> [keylist |-> ix.keylist, key2values |-> k2v]]
                               ELSE [err |-> "none",
                                     ix |-> [keylist |-> DelAt(ix.keylist, posn),
                                             key2values |-> k2v]]

\* _FactIndex._keys_eq
keys_eq(ix, key) == IF key \in DOMAIN ix.key2values THEN <<key>> ELSE <<>>

\* _FactIndex._keys_ne
keys_ne(ix, key) ==
    LET posn1 == bisect_left(ix.keylist, key)
        left  == IF posn1 # 0 THEN SubSeq(ix.keylist, 1, posn1) ELSE <<>>
        posn2 == bisect_right(ix.keylist, key)
        right == IF posn2 # 0
                 THEN SubSeq(ix.keylist, posn2 + 1, Len(ix.keylist)) ELSE <<>>
    IN  left \o right

\* _FactIndex._keys_lt
keys_lt(ix, key) ==
    LET posn == bisect_left(ix.keylist, key)
    IN  IF posn # 0 THEN SubSeq(ix.keylist, 1, posn) ELSE <<>>

\* _FactIndex._keys_le
keys_le(ix, key) ==
    LET posn == bisect_right(ix.keylist, key)
    IN  IF posn # 0 THEN SubSeq(ix.keylist, 1, posn) ELSE <<>>

\* _FactIndex._keys_gt
keys_gt(ix, key) ==
    LET posn == bisect_right(ix.keylist, key)
    IN  IF posn # 0 THEN SubSeq(ix.keylist, posn + 1, Len(ix.keylist)) ELSE <<>>

\* _FactIndex._keys_ge
keys_ge(ix, key) ==
    LET posn == bisect_left(ix.keylist, key)
    IN  IF posn # 0 THEN SubSeq(ix.keylist, posn + 1, Len(ix.keylist)) ELSE <<>>

\* _FactIndex.find: the union of the buckets of the keys the operator selects
find(ix, op, key) ==
    LET keys == CASE op = "eq" -> keys_eq(ix, key)
                  [] op = "ne" -> keys_ne(ix, key)
                  [] op = "lt" -> keys_lt(ix, key)
                  [] op = "le" -> keys_le(ix, key)
                  [] op = "gt" -> keys_gt(ix, key)
                  [] op = "ge" -> keys_ge(ix, key)
    IN  UNION {ix.key2values[keys[i]] : i \in 1..Len(keys)}

\* ---------------------------------------------------------------------------
\* _FactMap
\* ---------------------------------------------------------------------------

\* _FactMap.__init__: one empty _FactIndex per path of the index list
NewFindexes(idx) == [p \in Range(idx) |-> EmptyIndex]

\* the loop "for findex in self._findexes.values(): findex.add(fact)" from
\* position i on: it stops at the first index that raises
RECURSIVE AddToIndexes(_, _, _, _)
AddToIndexes(idx, fxs, fact, i) ==
    IF i > Len(idx)
    THEN [err |-> "none", findexes |-> fxs]
    ELSE LET r == FactIndexAdd(idx[i], fxs[idx[i]], fact)
         IN  IF r.err # "none"
             THEN [err |-> r.err, findexes |-> [fxs EXCEPT ![idx[i]] = r.ix]]
             ELSE AddToIndexes(idx, [fxs EXCEPT ![idx[i]] = r.ix], fact, i + 1)

\* the loop "for findex in self._findexes.values(): findex.remove(...)"
RECURSIVE RemoveFromIndexes(_, _, _, _, _)
RemoveFromIndexes(idx, fxs, fact, raise_on_missing, i) ==
    IF i > Len(idx)
    THEN [err |-> "none", findexes |-> fxs]
    ELSE LET r == FactIndexRemove(idx[i], fxs[idx[i]], fact, raise_on_missing)
         IN  IF r.err # "none"
             THEN [err |-> r.err, findexes |-> [fxs EXCEPT ![idx[i]] = r.ix]]
             ELSE RemoveFromIndexes(idx, [fxs EXCEPT ![idx[i]] = r.ix], fact,
                                    raise_on_missing, i + 1)

\* _FactMap.add: the fact set and the indexes after the call, and the error
FactMapAdd(facts, idx, fxs, fact) ==
    LET r == AddToIndexes(idx, fxs, fact, 1)
    IN  [err |-> r.err, allfacts |-> facts \cup {fact}, findexes |-> r.findexes]

\* _FactMap.remove with the loop over the indexes left out: the fact leaves
\* the Fact Set and stays in every Fact Index
FactMapRemoveSkipsIndexes(facts, idx, fxs, fact, raise_on_missing) ==
    IF raise_on_missing /\ fact \notin facts
    THEN [err |-> "KeyError", allfacts |-> facts, findexes |-> fxs]
    ELSE [err |-> "none", allfacts |-> facts \ {fact}, findexes |-> fxs]

\* _FactMap.remove (raise_on_missing = TRUE) and _FactMap.discard (FALSE)
FactMapRemove(facts, idx, fxs, fact, raise_on_missing) ==
    IF raise_on_missing /\ fact \notin facts
    THEN [err |-> "KeyError", allfacts |-> facts, findexes |-> fxs]
    ELSE LET r == RemoveFromIndexes(idx, fxs, fact, raise_on_missing, 1)
         IN  [err |-> r.err, allfacts |-> facts \ {fact}, findexes |-> r.findexes]

\* _FactMap.clear
FactMapClear(idx) == [allfacts |-> {}, findexes |-> [p \in Range(idx) |-> EmptyIndex]]


\* ---------------------------------------------------------------------------
\* _Select and _Delete over one _FactMap
\*
\* A where clause is a record: kind "none" when the query has no where
\* clause, kind "cmp" for the FieldQueryComparator "path op value".
\* ---------------------------------------------------------------------------

NoWhere == [kind |-> "none", op |-> "eq", path |-> "a", value |-> 0]

\* the comparisons of a field with a value
Wheres ==
    {w \in [kind : {"cmp"}, op : CompOps, path : Paths, value : Keys] :
        w.path = "b" => w.value \in BVals}

\* FieldQueryComparator.__call__
ComparatorCall(where, fact) ==
    compop(where.op, FieldPathEval(where.path, fact), where.value)

\* FieldQueryComparator.indexable: the comparison itself when its right-hand
\* side is a value (NoWhere stands for None)
indexable(where) == IF where.kind = "cmp" THEN where ELSE NoWhere

\* _Select._primary_search: the indexable comparison if its path is indexed
primary_search(idx, where) ==
    LET tmp == indexable(where)
    IN  IF tmp.kind # "none" /\ tmp.path \in Range(idx) THEN tmp ELSE NoWhere

\* _Select.get: the facts of the result list
SelectGet(facts, idx, fxs, where) ==
    LET ixable == primary_search(idx, where)
    IN  IF ixable.kind = "none"
        THEN {f \in facts : where.kind = "none" \/ ComparatorCall(where, f)}
        ELSE {f \in find(fxs[ixable.path], ixable.op, ixable.value) :
                 ComparatorCall(where, f)}

\* the loop "for fact in to_delete: self._factmap.remove(fact)": it stops at
\* the first remove that raises
RECURSIVE RemoveEach(_, _, _, _)
RemoveEach(facts, idx, fxs, to_delete) ==
    IF to_delete = {}
    THEN [err |-> "none", allfacts |-> facts, findexes |-> fxs]
    ELSE LET fact == CHOOSE f \in to_delete : TRUE
             r == FactMapRemove(facts, idx, fxs, fact, TRUE)
         IN  IF r.err # "none" THEN r
             ELSE RemoveEach(r.allfacts, idx, r.findexes, to_delete \ {fact})

\* _Delete.execute: the fact map after the call, the number returned, and
\* the error raised if any
DeleteExecute(facts, idx, fxs, where) ==
    IF where.kind = "none"
    THEN LET c == FactMapClear(idx)
         IN  [err |-> "none", allfacts |-> c.allfacts, findexes |-> c.findexes,
              n |-> Cardinality(facts)]
    ELSE LET to_delete == SelectGet(facts, idx, fxs, where)
             r == RemoveEach(facts, idx, fxs, to_delete)
         IN  [err |-> r.err, allfacts |-> r.allfacts, findexes |-> r.findexes,
              n |-> IF r.err = "none" THEN Cardinality(to_delete) ELSE 0]

\* ---------------------------------------------------------------------------
\* FactBase (src/clorm/orm/factbase.py).  Its facts are of the predicate
\* types A and B, each with one field n.  FactSet and FactMap live in
\* clorm/orm/factcontainers.py: a FactSet is the sequence of its facts in
\* insertion order, a FactMap is a FactSet and the list of its indexed paths.
\* A path is named by its predicate type: "A" is the path A.n.
\* ---------------------------------------------------------------------------

PTypes == {"A", "B"}

\* the predicate types sorted by name
TypeOrder == <<"A", "B">>

AFacts == [ptype : {"A"}, n : 1..MaxNum]

BFacts == [ptype : {"B"}, n : {1}]

PFacts == AFacts \cup BFacts

\* the lists of distinct facts handed to a constructor or made by a factory
FactLists ==
    {s \in UNION {[1..k -> PFacts] : k \in 0..Cardinality(PFacts)} :
        \A i, j \in DOMAIN s : s[i] = s[j] => i = j}

\* the indexes argument of a constructor
IndexArgs == {<<>>, <<"A">>, <<"B">>}

\* FactMap(ptype, idxs): no fact
FactMapNew(idxs) == [factset |-> <<>>, index |-> idxs]

\* fm.add_fact(fact)
fm_add_fact(fm, fact) ==
    [fm EXCEPT !.factset = IF fact \in Range(@) THEN @ ELSE Append(@, fact)]

RECURSIVE fm_add_facts(_, _)

\* fm.add_facts(facts)
fm_add_facts(fm, facts) ==
    IF facts = <<>> THEN fm
    ELSE fm_add_facts(fm_add_fact(fm, Head(facts)), Tail(facts))

\* bool(fm)
fm_bool(fm) == fm.factset # <<>>

\* fm.clear()
fm_clear(fm) == [fm EXCEPT !.factset = <<>>]

RECURSIVE fm_union(_, _)

\* fm.union(*others): a new FactMap with the index list of fm
fm_union(fm, others) ==
    IF others = <<>> THEN fm
    ELSE fm_union(fm_add_facts(fm, Head(others).factset), Tail(others))

RECURSIVE fm_intersection(_, _)

\* fm.intersection(*others)
fm_intersection(fm, others) ==
    IF others = <<>> THEN fm
    ELSE fm_intersection(
             [fm EXCEPT !.factset =
                 SelectSeq(@, LAMBDA f : f \in Range(Head(others).factset))],
             Tail(others))

RECURSIVE fm_difference(_, _)

\* fm.difference(*others)
fm_difference(fm, others) ==
    IF others = <<>> THEN fm
    ELSE fm_difference(
             [fm EXCEPT !.factset =
                 SelectSeq(@, LAMBDA f : f \notin Range(Head(others).factset))],
             Tail(others))

\* factset_equality(fs1, fs2)
factset_equality(fs1, fs2) == Range(fs1) = Range(fs2)

\* dict.setdefault(ptype, fm) on the dictionary _factmaps
setdefault(fms, ptype, fm) ==
    IF ptype \in DOMAIN fms THEN fms
    ELSE [t \in DOMAIN fms \cup {ptype} |-> IF t = ptype THEN fm ELSE fms[t]]

\* a FactBase object: factory, whether it was constructed from a factory;
\* delayed, whether _delayed_init is set; facts and idxarg, the list the
\* factory makes and the indexes argument while _delayed_init is set;
\* indexes and factmaps, the attributes _indexes and _factmaps
FactBaseObj(factory, delayed, facts, idxarg, indexes, factmaps) ==
    [factory |-> factory, delayed |-> delayed, facts |-> facts,
     idxarg |-> idxarg, indexes |-> indexes, factmaps |-> factmaps]

NoFactMaps == [t \in {} |-> FactMapNew(<<>>)]

\* FactBase()
EmptyFB == FactBaseObj(FALSE, FALSE, <<>>, <<>>, <<>>, NoFactMaps)

\* self._add_facts(ptype, facts)
add_facts(fms, ptype, facts) ==
    LET d == setdefault(fms, ptype, FactMapNew(<<>>))
    IN  [d EXCEPT ![ptype] = fm_add_facts(@, facts)]

\* self._add_fact(ptype, fact)
add_fact(fms, ptype, fact) ==
    LET d == setdefault(fms, ptype, FactMapNew(<<>>))
    IN  [d EXCEPT ![ptype] = fm_add_fact(@, fact)]

RECURSIVE add_groups(_, _, _)

\* self._add(facts) for a list: the facts grouped by type, the types in the
\* order of their names, the facts of one type in the order of the list
add_groups(fms, facts, i) ==
    IF i > Len(TypeOrder) THEN fms
    ELSE LET ptype == TypeOrder[i]
             g == SelectSeq(facts, LAMBDA f : f.ptype = ptype)
         IN  add_groups(IF g = <<>> THEN fms ELSE add_facts(fms, ptype, g),
                        facts, i + 1)

\* the predicate types of the paths of an index list
IndexedTypes(indexes) == {indexes[i] : i \in DOMAIN indexes}

\* the body of self._init(facts, indexes), from the factory's list on
InitBody(self, facts, indexes) ==
    LET grouped == [pt \in IndexedTypes(indexes) |->
                       FactMapNew(SelectSeq(indexes, LAMBDA p : p = pt))]
    IN  [self EXCEPT !.facts = <<>>, !.idxarg = <<>>, !.indexes = indexes,
                     !.factmaps = add_groups(grouped, facts, 1)]

\* self._init(facts, indexes) that leaves _delayed_init set
FBInitKeepsDelayed(self, callable, facts, indexes, n) ==
    [fb |-> [InitBody(self, facts, indexes) EXCEPT
                !.facts = self.facts, !.idxarg = self.idxarg],
     calls |-> IF callable THEN n + 1 ELSE n]

\* self._init(facts, indexes): _delayed_init is reset, a callable facts is
\* called; n counts the calls of the factory
FBInit(self, callable, facts, indexes, n) ==
    [fb |-> InitBody([self EXCEPT !.delayed = FALSE], facts, indexes),
     calls |-> IF callable THEN n + 1 ELSE n]

\* FactBase(facts, indexes); callable: facts is a factory that makes the list
FBNew(callable, facts, indexes) ==
    IF callable
    THEN FactBaseObj(TRUE, TRUE, facts, indexes, <<>>, NoFactMaps)
    ELSE FBInit(EmptyFB, FALSE, facts, indexes, 0).fb

\* self._check_init()
CheckInit(self, n) ==
    IF self.delayed THEN FBInit(self, TRUE, self.facts, self.idxarg, n)
    ELSE [fb |-> self, calls |-> n]

\* the operations below are given a FactBase whose _check_init() has run

\* fact in self
FBContains(self, fact) ==
    /\ fact.ptype \in DOMAIN self.factmaps
    /\ fact \in Range(self.factmaps[fact.ptype].factset)

RECURSIVE SumLen(_, _)

\* the sum of len(fm.factset) over the FactMaps of the types S
SumLen(fms, S) ==
    IF S = {} THEN 0
    ELSE LET t == CHOOSE x \in S : TRUE
         IN  Len(fms[t].factset) + SumLen(fms, S \ {t})

\* len(self)
FBLen(self) == SumLen(self.factmaps, DOMAIN self.factmaps)

\* bool(self)
FBBool(self) == \E t \in DOMAIN self.factmaps : fm_bool(self.factmaps[t])

\* self._add(fact) for one fact
FBAdd(self, fact) ==
    [self EXCEPT !.factmaps = add_fact(@, fact.ptype, fact)]

\* self._remove(fact, raise_on_missing): the name arg of its first test is
\* not defined, the test raises NameError
FBRemove(self, fact, raise_on_missing) == [err |-> "NameError", fb |-> self]

\* self.clear()
FBClear(self) ==
    [self EXCEPT !.factmaps = [t \in DOMAIN @ |-> fm_clear(@[t])]]

\* self.select(root), self.delete(root), self.query(root): the FactMap of
\* the root's type is made if there is none
FBSelect(self, ptype) ==
    [self EXCEPT !.factmaps = setdefault(@, ptype, FactMapNew(<<>>))]

\* the types of the FactMaps that hold a fact
NonEmptyTypes(self) == {t \in DOMAIN self.factmaps : fm_bool(self.factmaps[t])}

\* self == other, comparing the keys of all FactMaps
FBEqKeepsEmpty(self, other) ==
    /\ DOMAIN self.factmaps = DOMAIN other.factmaps
    /\ \A p \in DOMAIN self.factmaps :
           factset_equality(self.factmaps[p].factset, other.factmaps[p].factset)

\* self == other
FBEq(self, other) ==
    /\ NonEmptyTypes(self) = NonEmptyTypes(other)
    /\ \A p \in NonEmptyTypes(self) :
           factset_equality(self.factmaps[p].factset, other.factmaps[p].factset)

\* [o._factmaps[p] for o in others if p in o._factmaps] for the one other
pothers(other, p) ==
    IF p \in DOMAIN other.factmaps THEN <<other.factmaps[p]>> ELSE <<>>

\* self.union(other)
FBUnion(self, other) ==
    LET predicates == DOMAIN self.factmaps \cup DOMAIN other.factmaps
    IN  [EmptyFB EXCEPT !.factmaps =
            [p \in predicates |->
                IF p \in DOMAIN self.factmaps
                THEN fm_union(self.factmaps[p], pothers(other, p))
                ELSE fm_union(FactMapNew(<<>>), pothers(other, p))]]

\* self.intersection(other)
FBIntersection(self, other) ==
    LET predicates == DOMAIN self.factmaps \cap DOMAIN other.factmaps
    IN  [EmptyFB EXCEPT !.factmaps =
            [p \in predicates |->
                fm_intersection(self.factmaps[p], pothers(other, p))]]

\* self.difference(other) over the types both have a FactMap of
FBDifferenceSharedTypes(self, other) ==
    LET predicates == DOMAIN self.factmaps \cap DOMAIN other.factmaps
    IN  [EmptyFB EXCEPT !.factmaps =
            [p \in predicates |->
                fm_difference(self.factmaps[p], pothers(other, p))]]

\* self.difference(other)
FBDifference(self, other) ==
    LET predicates == DOMAIN self.factmaps
    IN  [EmptyFB EXCEPT !.factmaps =
            [p \in predicates |->
                fm_difference(self.factmaps[p], pothers(other, p))]]

\* fm.symmetric_difference(other): a new FactMap with the index list of fm
fm_symmetric_difference(fm, other) ==
    [fm EXCEPT !.factset =
        SelectSeq(@, LAMBDA f : f \notin Range(other.factset))
        \o SelectSeq(other.factset, LAMBDA f : f \notin Range(fm.factset))]

\* fm.copy(): the same facts and the same index list
fm_copy(fm) == fm

\* fs1 < fs2 on FactSets: a proper subset
factset_lt(fs1, fs2) == Range(fs1) \subseteq Range(fs2) /\ Range(fs1) # Range(fs2)

\* fs1 > fs2 on FactSets: a proper superset
factset_gt(fs1, fs2) == factset_lt(fs2, fs1)

\* self.symmetric_difference(other): for a type of which only one has a
\* FactMap, the copy of the other's FactMap is taken whether or not the
\* other has one; the dictionary lookup raises KeyError if it has none
FBSymmetricDifference(self, other) ==
    LET predicates == DOMAIN self.factmaps \cup DOMAIN other.factmaps
    IN  IF \E p \in predicates : p \notin DOMAIN other.factmaps
        THEN [err |-> "KeyError", fb |-> EmptyFB]
        ELSE [err |-> "none",
              fb |-> [EmptyFB EXCEPT !.factmaps =
                        [p \in predicates |->
                            IF p \in DOMAIN self.factmaps
                            THEN fm_symmetric_difference(self.factmaps[p],
                                                         other.factmaps[p])
                            ELSE fm_copy(other.factmaps[p])]]]

\* self < other
FBLt(self, other) ==
    LET self_fms == NonEmptyTypes(self)
        other_fms == NonEmptyTypes(other)
    IN  IF Cardinality(self_fms) > Cardinality(other_fms) THEN FALSE
        ELSE IF \E p \in self_fms : p \notin other_fms THEN FALSE
        ELSE IF \E p \in self_fms :
                    /\ ~factset_lt(self.factmaps[p].factset,
                                   other.factmaps[p].factset)
                    /\ factset_gt(self.factmaps[p].factset,
                                  other.factmaps[p].factset)
             THEN FALSE
        ELSE \E p \in self_fms :
                 factset_lt(self.factmaps[p].factset, other.factmaps[p].factset)

\* self <= other
FBLe(self, other) ==
    LET self_fms == NonEmptyTypes(self)
        other_fms == NonEmptyTypes(other)
    IN  IF Cardinality(self_fms) > Cardinality(other_fms) THEN FALSE
        ELSE IF \E p \in self_fms : p \notin other_fms THEN FALSE
        ELSE ~ \E p \in self_fms :
                   factset_gt(self.factmaps[p].factset, other.factmaps[p].factset)

\* self > other
FBGt(self, other) == FBLt(other, self)

\* self >= other
FBGe(self, other) == FBLe(other, self)

\* self.copy()
FBCopy(self) ==
    [EmptyFB EXCEPT !.factmaps =
        [p \in DOMAIN self.factmaps |-> fm_copy(self.factmaps[p])]]

\* fm.update(*others), fm.intersection_update(*others),
\* fm.difference_update(*others), fm.symmetric_difference_update(other):
\* fm afterwards; its Fact Set is combined as by the operation that makes a
\* new FactMap, its index list stays
fm_update(fm, others) == fm_union(fm, others)

fm_intersection_update(fm, others) == fm_intersection(fm, others)

fm_difference_update(fm, others) == fm_difference(fm, others)

fm_symmetric_difference_update(fm, other) == fm_symmetric_difference(fm, other)

\* self.update(other): self afterwards
FBUpdate(self, other) ==
    [self EXCEPT !.factmaps =
        [p \in DOMAIN self.factmaps \cup DOMAIN other.factmaps |->
            IF p \notin DOMAIN other.factmaps THEN self.factmaps[p]
            ELSE IF p \in DOMAIN self.factmaps
                 THEN fm_update(self.factmaps[p], <<other.factmaps[p]>>)
                 ELSE fm_copy(other.factmaps[p])]]

\* self.intersection_update(other): self afterwards
FBIntersectionUpdate(self, other) ==
    LET predicates == DOMAIN self.factmaps \cap DOMAIN other.factmaps
    IN  [self EXCEPT !.factmaps =
            [p \in DOMAIN self.factmaps |->
                IF p \in predicates
                THEN fm_intersection_update(self.factmaps[p], pothers(other, p))
                ELSE fm_clear(self.factmaps[p])]]

\* self.difference_update(other): self afterwards
FBDifferenceUpdate(self, other) ==
    [self EXCEPT !.factmaps =
        [p \in DOMAIN self.factmaps |->
            fm_difference_update(self.factmaps[p], pothers(other, p))]]

\* self.symmetric_difference_update(other): self afterwards
FBSymmetricDifferenceUpdate(self, other) ==
    [self EXCEPT !.factmaps =
        [p \in DOMAIN self.factmaps \cup DOMAIN other.factmaps |->
            IF p \in DOMAIN self.factmaps /\ p \in DOMAIN other.factmaps
            THEN fm_symmetric_difference_update(self.factmaps[p], other.factmaps[p])
            ELSE IF p \in DOMAIN other.factmaps THEN fm_copy(other.factmaps[p])
            ELSE self.factmaps[p]]]

\* the facts a FactBase holds
Facts(self) ==
    UNION {Range(self.factmaps[t].factset) : t \in DOMAIN self.factmaps}

NoPFact == [ptype |-> "none", n |-> 0]

\* op: the operation; fact: the fact it was given; err: the error it raised;
\* flag, n, fb: the truth value, number or FactBase it returned
Res(op, fact, err, flag, n, fb) ==
    [op |-> op, fact |-> fact, err |-> err, flag |-> flag, n |-> n, fb |-> fb]

NoRes == Res("init", NoPFact, "none", FALSE, 0, EmptyFB)

\* ---------------------------------------------------------------------------
\* Query builders.  QueryImpl, SelectImpl and _Delete of
\* src/clorm/orm/factbase.py hold a QuerySpec (clorm/orm/query.py); _Select and
\* _Delete of src/clorm/orm.py hold their clauses themselves.  A clause of a
\* QuerySpec is <<>> while it is not declared and <<v>> once it is declared
\* with the value v; roots is the number of root types.
\* ---------------------------------------------------------------------------

\* QuerySpec(roots=roots)
QuerySpec(roots) ==
    [roots |-> roots, join |-> <<>>, where |-> <<>>, order_by |-> <<>>,
     group_by |-> <<>>, select |-> <<>>, unique |-> <<>>, tuple |-> <<>>,
     bind |-> <<>>, heuristic |-> <<>>]

\* qspec.newp(k=v): a new QuerySpec with the clause k; a clause that is
\* declared already is refused
newp(qspec, k, v) ==
    IF qspec[k] # <<>> THEN [err |-> "multiple times", qspec |-> qspec]
    ELSE [err |-> "none", qspec |-> [qspec EXCEPT ![k] = <<v>>]]

\* qspec.bindp(*args, **kwargs): a new QuerySpec with the placeholders bound
bindp(qspec) == [err |-> "none", qspec |-> [qspec EXCEPT !.bind = <<TRUE>>]]

\* a query object: cls, its class; has_where, the attribute _has_where of a
\* _Delete of factbase.py; qspec, its QuerySpec, or for the classes of orm.py
\* the attributes _where and _key as the clauses where and order_by
QueryObj(cls, has_where, qspec) ==
    [cls |-> cls, has_where |-> has_where, qspec |-> qspec]

NoQuery == QueryObj("none", FALSE, QuerySpec(0))

\* the outcome of a method: err, the error raised; same, whether the object
\* returned is the receiver; obj, the object returned; self, the receiver
\* after the call
Outcome(err, same, obj, self) ==
    [err |-> err, same |-> same, obj |-> obj, self |-> self]

Raised(err, self) == Outcome(err, FALSE, NoQuery, self)

\* QueryImpl(self._factmaps, nqspec) for the outcome r of newp or bindp
NewQueryImpl(self, r) ==
    IF r.err # "none" THEN Raised(r.err, self)
    ELSE Outcome("none", FALSE, QueryObj("QueryImpl", FALSE, r.qspec), self)

\* self._check_join_called_first(name) that asks for more than two roots
check_join_over_two_roots(self) ==
    IF self.qspec.join = <<>> /\ self.qspec.roots > 2 THEN "join first"
    ELSE "none"

\* self._check_join_called_first(name)
check_join_called_first(self) ==
    IF self.qspec.join = <<>> /\ self.qspec.roots > 1 THEN "join first"
    ELSE "none"

\* QueryImpl.heuristic(join_order)
QueryImplHeuristic(self, join_order) ==
    NewQueryImpl(self, newp(self.qspec, "heuristic", join_order))

\* QueryImpl.join(*expressions)
QueryImplJoin(self, join) == NewQueryImpl(self, newp(self.qspec, "join", join))

\* QueryImpl.where(*expressions)
QueryImplWhere(self, where) ==
    IF check_join_called_first(self) # "none"
    THEN Raised(check_join_called_first(self), self)
    ELSE NewQueryImpl(self, newp(self.qspec, "where", where))

\* QueryImpl.order_by(*expressions)
QueryImplOrderBy(self, order_by) ==
    IF check_join_called_first(self) # "none"
    THEN Raised(check_join_called_first(self), self)
    ELSE NewQueryImpl(self, newp(self.qspec, "order_by", order_by))

\* order_by[:grouping] of Python for a list order_by and an integer grouping
Prefix(order_by, grouping) ==
    LET n == IF grouping >= 0 THEN grouping ELSE Len(order_by) + grouping
        m == IF n < 0 THEN 0 ELSE IF n > Len(order_by) THEN Len(order_by) ELSE n
    IN  SubSeq(order_by, 1, m)

\* QueryImpl.group_by(grouping)
QueryImplGroupBy(self, grouping) ==
    IF check_join_called_first(self) # "none"
    THEN Raised(check_join_called_first(self), self)
    ELSE IF self.qspec.order_by = <<>> THEN Raised("order_by first", self)
    ELSE LET order_by == self.qspec.order_by[1]
         IN  IF Len(order_by) <= 0 THEN Raised("not positive", self)
             ELSE IF grouping > Len(order_by) THEN Raised("too large", self)
             ELSE NewQueryImpl(self, newp(self.qspec, "group_by",
                                          Prefix(order_by, grouping)))

\* QueryImpl.tuple()
QueryImplTuple(self) ==
    IF check_join_called_first(self) # "none"
    THEN Raised(check_join_called_first(self), self)
    ELSE NewQueryImpl(self, newp(self.qspec, "tuple", TRUE))

\* QueryImpl.unique()
QueryImplUnique(self) ==
    IF check_join_called_first(self) # "none"
    THEN Raised(check_join_called_first(self), self)
    ELSE NewQueryImpl(self, newp(self.qspec, "unique", TRUE))

\* QueryImpl.bind(*args, **kwargs)
QueryImplBind(self) ==
    IF check_join_called_first(self) # "none"
    THEN Raised(check_join_called_first(self), self)
    ELSE NewQueryImpl(self, bindp(self.qspec))

\* QueryImpl.select(*outsig)
QueryImplSelect(self, outsig) ==
    IF check_join_called_first(self) # "none"
    THEN Raised(check_join_called_first(self), self)
    ELSE NewQueryImpl(self, newp(self.qspec, "select", outsig))

\* QueryImpl.query_plan/all/singleton/count/first/delete: exec is the error
\* the execution of the query raises, "none" if it raises none
QueryImplTerminal(self, exec) ==
    IF check_join_called_first(self) # "none"
    THEN Raised(check_join_called_first(self), self)
    ELSE Raised(exec, self)

\* SelectImpl(self._factbase, nqspec) for the outcome r of newp
NewSelectImpl(self, r) ==
    IF r.err # "none" THEN Raised(r.err, self)
    ELSE Outcome("none", FALSE, QueryObj("SelectImpl", FALSE, r.qspec), self)

\* SelectImpl.where(*expressions)
SelectImplWhere(self, where) ==
    IF self.qspec.order_by # <<>> THEN Raised("where before order_by", self)
    ELSE NewSelectImpl(self, newp(self.qspec, "where", where))

\* SelectImpl.order_by(*expressions)
SelectImplOrderBy(self, order_by) ==
    NewSelectImpl(self, newp(self.qspec, "order_by", order_by))

\* _Delete.where(*expressions) of factbase.py: _has_where is set, then
\* _select is replaced by the SelectImpl its where returns
DeleteWhere(self, where) ==
    LET marked == [self EXCEPT !.has_where = TRUE]
        r == SelectImplWhere(QueryObj("SelectImpl", FALSE, self.qspec), where)
    IN  IF r.err # "none" THEN Raised(r.err, marked)
        ELSE LET done == [marked EXCEPT !.qspec = r.obj.qspec]
             IN  Outcome("none", TRUE, done, done)

\* _Select.where(*expressions) of orm.py that sets _where without a test
OldSelectWhereReplaces(self, where) ==
    LET done == [self EXCEPT !.qspec.where = <<where>>]
    IN  Outcome("none", TRUE, done, done)

\* _Select.where(*expressions) of orm.py
OldSelectWhere(self, where) ==
    IF self.qspec.where # <<>> THEN Raised("multiple times", self)
    ELSE LET done == [self EXCEPT !.qspec.where = <<where>>]
         IN  Outcome("none", TRUE, done, done)

\* _Select.order_by(*expressions) of orm.py
OldSelectOrderBy(self, order_by) ==
    IF self.qspec.order_by # <<>> THEN Raised("multiple times", self)
    ELSE LET done == [self EXCEPT !.qspec.order_by = <<order_by>>]
         IN  Outcome("none", TRUE, done, done)

\* _Delete.where(*expressions) of orm.py: the where of its _Select
OldDeleteWhere(self, where) ==
    LET r == OldSelectWhere(self, where)
    IN  IF r.err # "none" THEN Raised(r.err, self)
        ELSE Outcome("none", TRUE, r.self, r.self)

\* the where clauses, order_by lists, group_by arguments, select signatures,
\* join expressions and join orders given to the clause methods
WhereArgs == {"w1", "w2"}

OrderByArgs == {<<"a">>, <<"a", "b">>}

GroupByArgs == {-1, 0, 1, 2, 3}

\* the classes of the query objects
QueryClasses == {"QueryImpl", "SelectImpl", "Delete", "OldSelect", "OldDelete"}

\* FactBase.query(*roots), FactBase.select(root), FactBase.delete(root) of
\* factbase.py and _Select(factmap), _Delete(factmap) of orm.py
FreshQueries ==
    {QueryObj("QueryImpl", FALSE, QuerySpec(n)) : n \in {1, 2}}
    \cup {QueryObj(c, FALSE, QuerySpec(1)) : c \in QueryClasses \ {"QueryImpl"}}

\* the operation last called on the query object: op, its name; where,
\* order_by, grouping, its argument; err, same, obj, its outcome
QRes(op, where, order_by, grouping, r) ==
    [op |-> op, where |-> where, order_by |-> order_by, grouping |-> grouping,
     err |-> r.err, same |-> r.same, obj |-> r.obj]

NoQRes == QRes("init", "", <<>>, 0, Raised("none", NoQuery))

\* the query variables while the model is not of a query object
IdleQB ==
    /\ query = NoQuery
    /\ qres = NoQRes

\* the FactBase variables while the model is of a _FactMap
IdleFB ==
    /\ fba = EmptyFB
    /\ fbb = EmptyFB
    /\ calls = [a |-> 0, b |-> 0]
    /\ res = NoRes

\* ---------------------------------------------------------------------------
\* Placeholders (src/clorm/orm.py): the right-hand side of a comparison is a
\* positional placeholder, filled from the positional arguments of get or
\* execute, or a named placeholder, filled from the keyword arguments or from
\* its default; default is <<>> for None and <<d>> for the default d
\* ---------------------------------------------------------------------------

\* _PositionalPlaceholder(posn)
PositionalPlaceholder(posn) ==
    [ph |-> "positional", posn |-> posn, name |-> "", default |-> <<>>]

\* _NamedPlaceholder(name, default)
NamedPlaceholder(name, default) ==
    [ph |-> "named", posn |-> 0, name |-> name, default |-> default]

\* the values given to a placeholder
PhVals == {0, 1}

\* ph1_, ph2_, ph_("v"), ph_("v", d)
Placeholders ==
    {PositionalPlaceholder(posn) : posn \in {0, 1}}
    \cup {NamedPlaceholder("v", <<>>)}
    \cup {NamedPlaceholder("v", <<d>>) : d \in PhVals}

\* the comparisons of field a with a placeholder
PhWheres ==
    [kind : {"cmp"}, op : {"eq", "lt", "ge"}, path : {"a"}, value : Placeholders]

\* the positional and the keyword arguments of get and execute
CallArgs == {<<>>, <<1>>}

NoKwargs == [name \in {} |-> 0]

CallKwargs == {NoKwargs} \cup {[name \in {"v"} |-> x] : x \in PhVals}

\* new_kwargs.update(kwargs)
dict_update(new_kwargs, kwargs) ==
    [name \in DOMAIN new_kwargs \cup DOMAIN kwargs |->
        IF name \in DOMAIN kwargs THEN kwargs[name] ELSE new_kwargs[name]]

\* FieldQueryComparator.placeholders
placeholders(where) == <<where.value>>

\* _Select._resolve_arguments that gives a named placeholder without
\* argument and without default the value 0
resolve_arguments_fills_missing(where, args, kwargs) ==
    LET ph == placeholders(where)[1]
    IN  IF ph.ph = "positional"
        THEN IF ph.posn < Len(args) THEN [err |-> "none", kwargs |-> kwargs]
             ELSE [err |-> "TypeError", kwargs |-> kwargs]
        ELSE IF ph.name \in DOMAIN kwargs THEN [err |-> "none", kwargs |-> kwargs]
        ELSE [err |-> "none",
              kwargs |-> dict_update(
                  [name \in {ph.name} |->
                      IF ph.default # <<>> THEN ph.default[1] ELSE 0], kwargs)]

\* _Select._resolve_arguments that takes the default of a named placeholder
\* whether or not the keyword arguments give it a value
resolve_arguments_default_wins(where, args, kwargs) ==
    LET ph == placeholders(where)[1]
    IN  IF ph.ph = "positional"
        THEN IF ph.posn < Len(args) THEN [err |-> "none", kwargs |-> kwargs]
             ELSE [err |-> "TypeError", kwargs |-> kwargs]
        ELSE IF ph.default # <<>>
        THEN [err |-> "none", kwargs |-> [name \in {ph.name} |-> ph.default[1]]]
        ELSE IF ph.name \in DOMAIN kwargs THEN [err |-> "none", kwargs |-> kwargs]
        ELSE [err |-> "TypeError", kwargs |-> kwargs]

\* _Select._resolve_arguments for a where clause with one placeholder: the
\* error raised and the keyword arguments returned
resolve_arguments(where, args, kwargs) ==
    LET ph == placeholders(where)[1]
    IN  IF ph.ph = "positional"
        THEN IF ph.posn < Len(args) THEN [err |-> "none", kwargs |-> kwargs]
             ELSE [err |-> "TypeError", kwargs |-> kwargs]
        ELSE IF ph.name \in DOMAIN kwargs THEN [err |-> "none", kwargs |-> kwargs]
        ELSE IF ph.default # <<>>
        THEN [err |-> "none",
              kwargs |-> dict_update([name \in {ph.name} |-> ph.default[1]],
                                     kwargs)]
        ELSE [err |-> "TypeError", kwargs |-> kwargs]

\* get_value of _Select.get and getargval of FieldQueryComparator.__call__
\* for a placeholder
get_value(arg, args, nkwargs) ==
    IF arg.ph = "positional" THEN args[arg.posn + 1] ELSE nkwargs[arg.name]

\* FieldQueryComparator.__call__(fact, *args, **kwargs)
ComparatorCallArgs(where, fact, args, nkwargs) ==
    compop(where.op, FieldPathEval(where.path, fact),
           get_value(where.value, args, nkwargs))

\* _Select.get(*args, **kwargs): the error raised and the facts of the result
SelectGetArgs(facts, idx, fxs, where, args, kwargs) ==
    LET r == resolve_arguments(where, args, kwargs)
        ixable == primary_search(idx, where)
    IN  IF r.err # "none" THEN [err |-> r.err, ret |-> {}]
        ELSE IF ixable.kind = "none"
        THEN [err |-> "none",
              ret |-> {f \in facts : ComparatorCallArgs(where, f, args, r.kwargs)}]
        ELSE [err |-> "none",
              ret |-> {f \in find(fxs[ixable.path], ixable.op,
                                   get_value(ixable.value, args, r.kwargs)) :
                          ComparatorCallArgs(where, f, args, r.kwargs)}]

\* _Delete.execute(*args, **kwargs) of a delete with a where clause
DeleteExecuteArgs(facts, idx, fxs, where, args, kwargs) ==
    LET s == SelectGetArgs(facts, idx, fxs, where, args, kwargs)
        r == RemoveEach(facts, idx, fxs, s.ret)
    IN  IF s.err # "none"
        THEN [err |-> s.err, allfacts |-> facts, findexes |-> fxs, n |-> 0]
        ELSE [err |-> r.err, allfacts |-> r.allfacts, findexes |-> r.findexes,
              n |-> IF r.err = "none" THEN Cardinality(s.ret) ELSE 0]

\* a call of get or execute: the where clause and the arguments
Call(where, args, kwargs) ==
    [kind |-> "call", cond |-> where, args |-> args, kwargs |-> kwargs]

\* ---------------------------------------------------------------------------
\* The record of the last operation
\* ---------------------------------------------------------------------------

NoFact == [ptype |-> "none", a |-> 0, b |-> 0]

\* op: the operation; fact: the record it was given; stored: whether the
\* Fact Set held that record when it was called; err: the error it raised;
\* where: the query's where clause; ret, n: the records or number it returned
Last(op, fact, stored, err, where, ret, n) ==
    [op |-> op, fact |-> fact, stored |-> stored, err |-> err,
     where |-> where, ret |-> ret, n |-> n]

NoOp == Last("init", NoFact, FALSE, "none", NoWhere, {}, 0)

\* ---------------------------------------------------------------------------
\* The operations of one _FactMap, called directly
\* ---------------------------------------------------------------------------

\* _FactMap(ptype, index): no fact, one empty index per path
InitFM ==
    /\ allfacts = {}
    /\ index \in IndexLists
    /\ findexes = NewFindexes(index)
    /\ last = NoOp
    /\ IdleFB
    /\ IdleQB

Add(fact) ==
    LET r == FactMapAdd(allfacts, index, findexes, fact)
    IN  /\ allfacts' = r.allfacts
        /\ findexes' = r.findexes
        /\ last' = Last("add", fact, fact \in allfacts, r.err, NoWhere, {}, 0)
        /\ UNCHANGED <<index, fbvars, qbvars>>

Remove(fact) ==
    LET r == FactMapRemove(allfacts, index, findexes, fact, TRUE)
    IN  /\ allfacts' = r.allfacts
        /\ findexes' = r.findexes
        /\ last' = Last("remove", fact, fact \in allfacts, r.err, NoWhere, {}, 0)
        /\ UNCHANGED <<index, fbvars, qbvars>>

Discard(fact) ==
    LET r == FactMapRemove(allfacts, index, findexes, fact, FALSE)
    IN  /\ allfacts' = r.allfacts
        /\ findexes' = r.findexes
        /\ last' = Last("discard", fact, fact \in allfacts, r.err, NoWhere, {}, 0)
        /\ UNCHANGED <<index, fbvars, qbvars>>

Clear ==
    LET r == FactMapClear(index)
    IN  /\ allfacts' = r.allfacts
        /\ findexes' = r.findexes
        /\ last' = Last("clear", NoFact, FALSE, "none", NoWhere, {}, 0)
        /\ UNCHANGED <<index, fbvars, qbvars>>

NextFM ==
    \/ \E fact \in AnyFacts : Add(fact)
    \/ \E fact \in AnyFacts : Remove(fact)
    \/ \E fact \in AnyFacts : Discard(fact)
    \/ Clear

SpecFM == InitFM /\ [][NextFM]_vars

\* ---------------------------------------------------------------------------
\* One _FactMap indexed on field a, holding records of its own type, and the
\* lookups of its index
\* ---------------------------------------------------------------------------

InitIX ==
    /\ allfacts = {}
    /\ index \in {<<"a">>, <<"b", "a">>}
    /\ findexes = NewFindexes(index)
    /\ last = NoOp
    /\ IdleFB
    /\ IdleQB

\* findex.find(op, key) on the index of path p
Find(p, op, key) ==
    /\ p \in Range(index)
    /\ last' = Last("find", NoFact, FALSE, "none",
                    [kind |-> "cmp", op |-> op, path |-> p, value |-> key],
                    find(findexes[p], op, key), 0)
    /\ UNCHANGED <<allfacts, index, findexes, fbvars, qbvars>>

NextIX ==
    \/ \E fact \in FFacts : Add(fact)
    \/ \E fact \in FFacts : Remove(fact)
    \/ \E fact \in FFacts : Discard(fact)
    \/ Clear
    \/ \E op \in CompOps, key \in Keys : Find("a", op, key)

SpecIX == InitIX /\ [][NextIX]_vars

\* ---------------------------------------------------------------------------
\* One _FactMap reached through its FactBase (src/clorm/orm.py): FactBase.add
\* routes a fact to the _FactMap of the fact's own type, FactBase.select and
\* FactBase.delete hand out the _FactMap's _Select and _Delete.  A _FactMap
\* the FactBase has not created yet is created on first use, empty and
\* without index, which is the state InitFM gives for the index list <<>>.
\* ---------------------------------------------------------------------------

InitQ == InitFM

\* FactBase.add(fact) for a fact of type F
FactBaseAdd(fact) == Add(fact)

\* FactBase.clear()
FactBaseClear == Clear

\* FactBase.select(F).where(where).get()
Select(where) ==
    /\ last' = Last("select", NoFact, FALSE, "none", where,
                    SelectGet(allfacts, index, findexes, where), 0)
    /\ UNCHANGED <<allfacts, index, findexes, fbvars, qbvars>>

\* FactBase.delete(F).where(where).execute(), and FactBase.delete(F).execute()
\* when where is NoWhere
Delete(where) ==
    LET r == DeleteExecute(allfacts, index, findexes, where)
    IN  /\ allfacts' = r.allfacts
        /\ findexes' = r.findexes
        /\ last' = Last("delete", NoFact, FALSE, r.err, where, {}, r.n)
        /\ UNCHANGED <<index, fbvars, qbvars>>

NextQ ==
    \/ \E fact \in QFacts : FactBaseAdd(fact)
    \/ FactBaseClear
    \/ \E where \in Wheres \cup {NoWhere} : Select(where)
    \/ \E where \in Wheres \cup {NoWhere} : Delete(where)

SpecQ == InitQ /\ [][NextQ]_vars

\* ---------------------------------------------------------------------------
\* One _FactMap reached through its FactBase (src/clorm/orm.py) and queries
\* whose where clause compares field a with a placeholder
\* ---------------------------------------------------------------------------

\* the facts added: field b is 0
PhFacts == {f \in FFacts : f.b = 0}

InitPH ==
    /\ allfacts = {}
    /\ index \in {<<>>, <<"a">>}
    /\ findexes = NewFindexes(index)
    /\ last = NoOp
    /\ IdleFB
    /\ IdleQB

\* FactBase.select(F).where(where).get(*args, **kwargs)
SelectArgs(where, args, kwargs) ==
    LET r == SelectGetArgs(allfacts, index, findexes, where, args, kwargs)
    IN  /\ last' = Last("select_args", NoFact, FALSE, r.err,
                        Call(where, args, kwargs), r.ret, 0)
        /\ UNCHANGED <<allfacts, index, findexes, fbvars, qbvars>>

\* FactBase.delete(F).where(where).execute(*args, **kwargs)
DeleteArgs(where, args, kwargs) ==
    LET r == DeleteExecuteArgs(allfacts, index, findexes, where, args, kwargs)
    IN  /\ allfacts' = r.allfacts
        /\ findexes' = r.findexes
        /\ last' = Last("delete_args", NoFact, FALSE, r.err,
                        Call(where, args, kwargs), {}, r.n)
        /\ UNCHANGED <<index, fbvars, qbvars>>

NextPH ==
    \/ \E fact \in PhFacts : FactBaseAdd(fact)
    \/ \E where \in PhWheres, args \in CallArgs, kwargs \in CallKwargs :
           SelectArgs(where, args, kwargs)
    \/ \E where \in PhWheres, args \in CallArgs, kwargs \in CallKwargs :
           DeleteArgs(where, args, kwargs)

SpecPH == InitPH /\ [][NextPH]_vars

\* ---------------------------------------------------------------------------
\* The operations of a FactBase of src/clorm/orm/factbase.py.  fba is the
\* receiver, fbb the other operand; every operation starts with
\* _check_init() on each FactBase it reads.
\* ---------------------------------------------------------------------------

\* the _FactMap variables while the model is of a FactBase
IdleFM ==
    /\ allfacts = {}
    /\ index = <<>>
    /\ findexes = NewFindexes(<<>>)
    /\ last = NoOp

Capped == calls.a < MaxCalls /\ calls.b < MaxCalls

\* fact in fba
Contains(fact) ==
    /\ Capped
    /\ LET c == CheckInit(fba, calls.a)
       IN  /\ fba' = c.fb
           /\ calls' = [calls EXCEPT !.a = c.calls]
           /\ res' = Res("contains", fact, "none", FBContains(c.fb, fact), 0,
                         EmptyFB)
    /\ UNCHANGED <<fbb, fmvars, qbvars>>

\* len(fba)
Length ==
    /\ Capped
    /\ LET c == CheckInit(fba, calls.a)
       IN  /\ fba' = c.fb
           /\ calls' = [calls EXCEPT !.a = c.calls]
           /\ res' = Res("len", NoPFact, "none", FALSE, FBLen(c.fb), EmptyFB)
    /\ UNCHANGED <<fbb, fmvars, qbvars>>

\* bool(fba)
Bool ==
    /\ Capped
    /\ LET c == CheckInit(fba, calls.a)
       IN  /\ fba' = c.fb
           /\ calls' = [calls EXCEPT !.a = c.calls]
           /\ res' = Res("bool", NoPFact, "none", FBBool(c.fb), 0, EmptyFB)
    /\ UNCHANGED <<fbb, fmvars, qbvars>>

\* fba.add(fact)
AddFact(fact) ==
    /\ Capped
    /\ LET c == CheckInit(fba, calls.a)
       IN  /\ fba' = FBAdd(c.fb, fact)
           /\ calls' = [calls EXCEPT !.a = c.calls]
           /\ res' = Res("add", fact, "none", FALSE, 0, EmptyFB)
    /\ UNCHANGED <<fbb, fmvars, qbvars>>

\* fba.remove(fact)
RemoveFact(fact) ==
    /\ Capped
    /\ LET c == CheckInit(fba, calls.a)
           r == FBRemove(c.fb, fact, TRUE)
       IN  /\ fba' = r.fb
           /\ calls' = [calls EXCEPT !.a = c.calls]
           /\ res' = Res("remove", fact, r.err, FALSE, 0, EmptyFB)
    /\ UNCHANGED <<fbb, fmvars, qbvars>>

\* fba.discard(fact)
DiscardFact(fact) ==
    /\ Capped
    /\ LET c == CheckInit(fba, calls.a)
           r == FBRemove(c.fb, fact, FALSE)
       IN  /\ fba' = r.fb
           /\ calls' = [calls EXCEPT !.a = c.calls]
           /\ res' = Res("discard", fact, r.err, FALSE, 0, EmptyFB)
    /\ UNCHANGED <<fbb, fmvars, qbvars>>

\* fba.clear()
ClearAll ==
    /\ Capped
    /\ LET c == CheckInit(fba, calls.a)
       IN  /\ fba' = FBClear(c.fb)
           /\ calls' = [calls EXCEPT !.a = c.calls]
           /\ res' = Res("clear", NoPFact, "none", FALSE, 0, EmptyFB)
    /\ UNCHANGED <<fbb, fmvars, qbvars>>

\* fba.select(ptype)
SelectRoot(ptype) ==
    /\ Capped
    /\ LET c == CheckInit(fba, calls.a)
       IN  /\ fba' = FBSelect(c.fb, ptype)
           /\ calls' = [calls EXCEPT !.a = c.calls]
           /\ res' = Res("select", [ptype |-> ptype, n |-> 0], "none", FALSE, 0,
                         EmptyFB)
    /\ UNCHANGED <<fbb, fmvars, qbvars>>

\* fba == fbb
Eq ==
    /\ Capped
    /\ LET ca == CheckInit(fba, calls.a)
           cb == CheckInit(fbb, calls.b)
       IN  /\ fba' = ca.fb
           /\ fbb' = cb.fb
           /\ calls' = [a |-> ca.calls, b |-> cb.calls]
           /\ res' = Res("eq", NoPFact, "none", FBEq(ca.fb, cb.fb), 0, EmptyFB)
    /\ UNCHANGED <<fmvars, qbvars>>

\* fba.union(fbb)
Union ==
    /\ Capped
    /\ LET ca == CheckInit(fba, calls.a)
           cb == CheckInit(fbb, calls.b)
       IN  /\ fba' = ca.fb
           /\ fbb' = cb.fb
           /\ calls' = [a |-> ca.calls, b |-> cb.calls]
           /\ res' = Res("union", NoPFact, "none", FALSE, 0,
                         FBUnion(ca.fb, cb.fb))
    /\ UNCHANGED <<fmvars, qbvars>>

\* fba.intersection(fbb)
Intersection ==
    /\ Capped
    /\ LET ca == CheckInit(fba, calls.a)
           cb == CheckInit(fbb, calls.b)
       IN  /\ fba' = ca.fb
           /\ fbb' = cb.fb
           /\ calls' = [a |-> ca.calls, b |-> cb.calls]
           /\ res' = Res("intersection", NoPFact, "none", FALSE, 0,
                         FBIntersection(ca.fb, cb.fb))
    /\ UNCHANGED <<fmvars, qbvars>>

\* fba.difference(fbb)
Difference ==
    /\ Capped
    /\ LET ca == CheckInit(fba, calls.a)
           cb == CheckInit(fbb, calls.b)
       IN  /\ fba' = ca.fb
           /\ fbb' = cb.fb
           /\ calls' = [a |-> ca.calls, b |-> cb.calls]
           /\ res' = Res("difference", NoPFact, "none", FALSE, 0,
                         FBDifference(ca.fb, cb.fb))
    /\ UNCHANGED <<fmvars, qbvars>>

\* fba.symmetric_difference(fbb)
SymmetricDifference ==
    /\ Capped
    /\ LET ca == CheckInit(fba, calls.a)
           cb == CheckInit(fbb, calls.b)
           r == FBSymmetricDifference(ca.fb, cb.fb)
       IN  /\ fba' = ca.fb
           /\ fbb' = cb.fb
           /\ calls' = [a |-> ca.calls, b |-> cb.calls]
           /\ res' = Res("symmetric_difference", NoPFact, r.err, FALSE, 0, r.fb)
    /\ UNCHANGED <<fmvars, qbvars>>

\* fba < fbb
Lt ==
    /\ Capped
    /\ LET ca == CheckInit(fba, calls.a)
           cb == CheckInit(fbb, calls.b)
       IN  /\ fba' = ca.fb
           /\ fbb' = cb.fb
           /\ calls' = [a |-> ca.calls, b |-> cb.calls]
           /\ res' = Res("lt", NoPFact, "none", FBLt(ca.fb, cb.fb), 0, EmptyFB)
    /\ UNCHANGED <<fmvars, qbvars>>

\* fba <= fbb
Le ==
    /\ Capped
    /\ LET ca == CheckInit(fba, calls.a)
           cb == CheckInit(fbb, calls.b)
       IN  /\ fba' = ca.fb
           /\ fbb' = cb.fb
           /\ calls' = [a |-> ca.calls, b |-> cb.calls]
           /\ res' = Res("le", NoPFact, "none", FBLe(ca.fb, cb.fb), 0, EmptyFB)
    /\ UNCHANGED <<fmvars, qbvars>>

\* fba > fbb
Gt ==
    /\ Capped
    /\ LET ca == CheckInit(fba, calls.a)
           cb == CheckInit(fbb, calls.b)
       IN  /\ fba' = ca.fb
           /\ fbb' = cb.fb
           /\ calls' = [a |-> ca.calls, b |-> cb.calls]
           /\ res' = Res("gt", NoPFact, "none", FBGt(ca.fb, cb.fb), 0, EmptyFB)
    /\ UNCHANGED <<fmvars, qbvars>>

\* fba >= fbb
Ge ==
    /\ Capped
    /\ LET ca == CheckInit(fba, calls.a)
           cb == CheckInit(fbb, calls.b)
       IN  /\ fba' = ca.fb
           /\ fbb' = cb.fb
           /\ calls' = [a |-> ca.calls, b |-> cb.calls]
           /\ res' = Res("ge", NoPFact, "none", FBGe(ca.fb, cb.fb), 0, EmptyFB)
    /\ UNCHANGED <<fmvars, qbvars>>

\* fba.copy()
Copy ==
    /\ Capped
    /\ LET c == CheckInit(fba, calls.a)
       IN  /\ fba' = c.fb
           /\ calls' = [calls EXCEPT !.a = c.calls]
           /\ res' = Res("copy", NoPFact, "none", FALSE, 0, FBCopy(c.fb))
    /\ UNCHANGED <<fbb, fmvars, qbvars>>

\* ---------------------------------------------------------------------------
\* One FactBase, constructed from a list or from a factory, and its accesses;
\* the other operand of its comparisons and unions is constructed from a
\* factory
\* ---------------------------------------------------------------------------

InitFB1 ==
    /\ IdleFM
    /\ IdleQB
    /\ fba \in {FBNew(c, facts, idx) :
                   c \in BOOLEAN, facts \in FactLists, idx \in IndexArgs}
    /\ fbb \in {FBNew(TRUE, facts, <<>>) :
                   facts \in {s \in FactLists : Len(s) <= 1}}
    /\ calls = [a |-> 0, b |-> 0]
    /\ res = NoRes

NextFB1 ==
    \/ \E fact \in PFacts : Contains(fact)
    \/ Length
    \/ Bool
    \/ \E fact \in PFacts : AddFact(fact)
    \/ \E fact \in PFacts : RemoveFact(fact)
    \/ \E fact \in PFacts : DiscardFact(fact)
    \/ ClearAll
    \/ \E ptype \in PTypes : SelectRoot(ptype)
    \/ Eq
    \/ Union

SpecFB1 == InitFB1 /\ [][NextFB1]_vars

\* fba.update(fbb), fba.intersection_update(fbb), fba.difference_update(fbb)
\* and fba.symmetric_difference_update(fbb): op names the method
InPlace(op) ==
    /\ Capped
    /\ LET ca == CheckInit(fba, calls.a)
           cb == CheckInit(fbb, calls.b)
       IN  /\ fba' = CASE op = "update" -> FBUpdate(ca.fb, cb.fb)
                       [] op = "intersection_update" ->
                              FBIntersectionUpdate(ca.fb, cb.fb)
                       [] op = "difference_update" ->
                              FBDifferenceUpdate(ca.fb, cb.fb)
                       [] op = "symmetric_difference_update" ->
                              FBSymmetricDifferenceUpdate(ca.fb, cb.fb)
           /\ fbb' = cb.fb
           /\ calls' = [a |-> ca.calls, b |-> cb.calls]
           /\ res' = Res(op, NoPFact, "none", FALSE, 0, EmptyFB)
    /\ UNCHANGED <<fmvars, qbvars>>

InPlaceOps ==
    {"update", "intersection_update", "difference_update",
     "symmetric_difference_update"}

\* ---------------------------------------------------------------------------
\* Two FactBases, each constructed from a list, their comparison and their
\* set algebra
\* ---------------------------------------------------------------------------

InitFB2 ==
    /\ IdleFM
    /\ IdleQB
    /\ fba \in {FBNew(FALSE, facts, idx) :
                   facts \in FactLists, idx \in IndexArgs}
    /\ fbb \in {FBNew(FALSE, facts, idx) :
                   facts \in FactLists, idx \in IndexArgs}
    /\ calls = [a |-> 0, b |-> 0]
    /\ res = NoRes

NextFB2 ==
    \/ Eq
    \/ Union
    \/ Intersection
    \/ Difference
    \/ SymmetricDifference
    \/ Lt
    \/ Le
    \/ Gt
    \/ Ge
    \/ Copy
    \/ \E op \in InPlaceOps : InPlace(op)

SpecFB2 == InitFB2 /\ [][NextFB2]_vars

\* ---------------------------------------------------------------------------
\* One query object and the methods called on it.  query is the receiver;
\* Follow goes on with the object the last method returned.
\* ---------------------------------------------------------------------------

\* q.where(where)
Where(where) ==
    /\ query.cls \in QueryClasses
    /\ LET r == CASE query.cls = "QueryImpl" -> QueryImplWhere(query, where)
                  [] query.cls = "SelectImpl" -> SelectImplWhere(query, where)
                  [] query.cls = "Delete" -> DeleteWhere(query, where)
                  [] query.cls = "OldSelect" -> OldSelectWhere(query, where)
                  [] query.cls = "OldDelete" -> OldDeleteWhere(query, where)
       IN  /\ query' = r.self
           /\ qres' = QRes("where", where, <<>>, 0, r)
    /\ UNCHANGED <<fmvars, fbvars>>

\* q.order_by(order_by)
OrderBy(order_by) ==
    /\ query.cls \in {"QueryImpl", "SelectImpl", "OldSelect"}
    /\ LET r == CASE query.cls = "QueryImpl" -> QueryImplOrderBy(query, order_by)
                  [] query.cls = "SelectImpl" -> SelectImplOrderBy(query, order_by)
                  [] query.cls = "OldSelect" -> OldSelectOrderBy(query, order_by)
       IN  /\ query' = r.self
           /\ qres' = QRes("order_by", "", order_by, 0, r)
    /\ UNCHANGED <<fmvars, fbvars>>

\* q.group_by(grouping)
GroupBy(grouping) ==
    /\ query.cls = "QueryImpl"
    /\ LET r == QueryImplGroupBy(query, grouping)
       IN  /\ query' = r.self
           /\ qres' = QRes("group_by", "", <<>>, grouping, r)
    /\ UNCHANGED <<fmvars, fbvars>>

\* q.select(outsig)
SelectSig ==
    /\ query.cls = "QueryImpl"
    /\ LET r == QueryImplSelect(query, "s")
       IN  /\ query' = r.self
           /\ qres' = QRes("select", "", <<>>, 0, r)
    /\ UNCHANGED <<fmvars, fbvars>>

\* q.unique()
Unique ==
    /\ query.cls = "QueryImpl"
    /\ LET r == QueryImplUnique(query)
       IN  /\ query' = r.self
           /\ qres' = QRes("unique", "", <<>>, 0, r)
    /\ UNCHANGED <<fmvars, fbvars>>

\* q.tuple()
Tuple ==
    /\ query.cls = "QueryImpl"
    /\ LET r == QueryImplTuple(query)
       IN  /\ query' = r.self
           /\ qres' = QRes("tuple", "", <<>>, 0, r)
    /\ UNCHANGED <<fmvars, fbvars>>

\* q.bind(...)
Bind ==
    /\ query.cls = "QueryImpl"
    /\ LET r == QueryImplBind(query)
       IN  /\ query' = r.self
           /\ qres' = QRes("bind", "", <<>>, 0, r)
    /\ UNCHANGED <<fmvars, fbvars>>

\* q.heuristic(join_order)
Heuristic ==
    /\ query.cls = "QueryImpl"
    /\ LET r == QueryImplHeuristic(query, "jo")
       IN  /\ query' = r.self
           /\ qres' = QRes("heuristic", "", <<>>, 0, r)
    /\ UNCHANGED <<fmvars, fbvars>>

\* q.join(join) on a query over two root types
Join ==
    /\ query.cls = "QueryImpl"
    /\ query.qspec.roots > 1
    /\ LET r == QueryImplJoin(query, "j")
       IN  /\ query' = r.self
           /\ qres' = QRes("join", "", <<>>, 0, r)
    /\ UNCHANGED <<fmvars, fbvars>>

TerminalOps == {"query_plan", "all", "singleton", "count", "first", "delete"}

\* q.query_plan(), q.all(), q.singleton(), q.count(), q.first(), q.delete()
Terminal(op, exec) ==
    /\ query.cls = "QueryImpl"
    /\ LET r == QueryImplTerminal(query, exec)
       IN  /\ query' = r.self
           /\ qres' = QRes(op, "", <<>>, 0, r)
    /\ UNCHANGED <<fmvars, fbvars>>

\* the caller goes on with the object the last method returned
Follow ==
    /\ qres.err = "none"
    /\ qres.obj # NoQuery
    /\ query' = qres.obj
    /\ qres' = QRes("follow", "", <<>>, 0, Raised("none", NoQuery))
    /\ UNCHANGED <<fmvars, fbvars>>

InitQB ==
    /\ IdleFM
    /\ IdleFB
    /\ query \in FreshQueries
    /\ qres = NoQRes

NextQB ==
    \/ \E where \in WhereArgs : Where(where)
    \/ \E order_by \in OrderByArgs : OrderBy(order_by)
    \/ \E grouping \in GroupByArgs : GroupBy(grouping)
    \/ SelectSig
    \/ Unique
    \/ Tuple
    \/ Bind
    \/ Heuristic
    \/ Join
    \/ \E op \in TerminalOps, exec \in {"none", "execution"} : Terminal(op, exec)
    \/ Follow

SpecQB == InitQB /\ [][NextQB]_vars

\* ---------------------------------------------------------------------------
\* Properties of the Fact Map and the Fact Index
\* ---------------------------------------------------------------------------

\* the index of path p holds the fact in the bucket of the fact's key
InBucket(p, fact) ==
    LET key == FieldPathEval(p, fact)
    IN  /\ key \in DOMAIN findexes[p].key2values
        /\ fact \in findexes[p].key2values[key]

\* the union of the buckets whose key k satisfies "k op key"
BucketsWhere(ix, op, key) ==
    UNION {ix.key2values[k] : k \in {x \in DOMAIN ix.key2values : compop(op, x, key)}}

\* C1: after any sequence of add, remove, discard and clear on a Fact Map,
\* every Fact Index holds a record in the bucket of its key if and only if
\* the Fact Set holds the record.
C1_LockStep ==
    \A p \in Range(index) : \A fact \in AnyFacts :
        (fact \in allfacts) <=> InBucket(p, fact)

\* C3: find(op, key) with op one of <, <=, >, >= returns exactly the union of
\* the buckets whose key k satisfies k op key, for every index content and
\* every key.
C3_FindOrdering ==
    (last.op = "find" /\ last.where.op \in {"lt", "le", "gt", "ge"})
        => last.ret = BucketsWhere(findexes[last.where.path], last.where.op,
                                   last.where.value)

\* C4: find with the not-equal operator returns exactly the union of all
\* buckets whose key differs from the given key (all buckets when the key is
\* not stored).
C4_FindNotEqual ==
    (last.op = "find" /\ last.where.op = "ne")
        => last.ret = BucketsWhere(findexes[last.where.path], "ne", last.where.value)

\* C7 as stated: removing a record that is not stored raises a not-found
\* error in strict mode (remove) and nothing in discard mode, and in both
\* modes leaves the Fact Set and every Fact Index unchanged.
C7_AnyRecord ==
    [][(last'.op \in {"remove", "discard"} /\ ~last'.stored)
         => /\ last'.err = (IF last'.op = "remove" THEN "KeyError" ELSE "none")
            /\ allfacts' = allfacts
            /\ findexes' = findexes]_vars

\* C7 amended: removing a record of the Fact Map's type that is not stored
\* raises a not-found error in strict mode (remove) and nothing in discard
\* mode, and in both modes leaves the Fact Set and every Fact Index unchanged.
C7_RemoveMissing ==
    [][(last'.op \in {"remove", "discard"} /\ ~last'.stored
            /\ last'.fact \in FFacts)
         => /\ last'.err = (IF last'.op = "remove" THEN "KeyError" ELSE "none")
            /\ allfacts' = allfacts
            /\ findexes' = findexes]_vars

\* a discard of a record of the Fact Map's type that is not stored, on a Fact
\* Map indexed on field a in which another record has the same key
C7_Witness ==
    /\ last.op = "discard" /\ ~last.stored /\ last.fact \in FFacts
    /\ "a" \in Range(index)
    /\ last.fact.a \in DOMAIN findexes["a"].key2values

\* ---------------------------------------------------------------------------
\* Properties of select and delete
\* ---------------------------------------------------------------------------

\* C2: a select with a where clause comparing a field with a value returns,
\* on a fact base indexed on that field, the same set of records as on a fact
\* base holding the same facts with no index.
C2_IndexScanEquivalence ==
    (last.op = "select" /\ last.where.kind = "cmp")
        => last.ret = SelectGet(allfacts, <<>>, NewFindexes(<<>>), last.where)

\* C5: a delete with a where clause removes exactly the records the
\* equivalent select returns and returns their number, and that select then
\* returns no record; a delete with no where clause removes every record and
\* returns how many there were.
C5_DeleteRoundTrip ==
    [][last'.op = "delete"
         => IF last'.where.kind = "none"
            THEN /\ last'.err = "none"
                 /\ allfacts' = {}
                 /\ last'.n = Cardinality(allfacts)
            ELSE LET matched == SelectGet(allfacts, index, findexes, last'.where)
                 IN  /\ last'.err = "none"
                     /\ allfacts' = allfacts \ matched
                     /\ last'.n = Cardinality(matched)
                     /\ SelectGet(allfacts', index', findexes', last'.where) = {}]_vars

\* a delete with a where clause on an indexed field has removed two records
\* and left others
C5_Witness ==
    /\ last.op = "delete" /\ last.where.kind = "cmp" /\ last.n = 2
    /\ last.where.path \in Range(index)
    /\ allfacts # {}

\* ---------------------------------------------------------------------------
\* Properties of the FactBase of src/clorm/orm/factbase.py
\* ---------------------------------------------------------------------------

\* C6: FactBase.remove(f) and FactBase.discard(f) on a fact base that
\* contains f raise no error and leave the fact base with every fact it held
\* except f
C6_RemoveContained ==
    [][(/\ res'.op \in {"remove", "discard"}
        /\ FBContains(CheckInit(fba, 0).fb, res'.fact))
       => /\ res'.err = "none"
          /\ Facts(fba') = Facts(CheckInit(fba, 0).fb) \ {res'.fact}]_vars

BinaryOps ==
    {"eq", "union", "intersection", "difference", "symmetric_difference",
     "lt", "le", "gt", "ge"}

\* C8: the factory of a FactBase constructed from a factory is not called
\* before the first access, is called once by the first access, whatever
\* the access is, and is not called by a later access
C8_DelayedInit ==
    /\ fba.factory =>
           IF res.op = "init" THEN fba.delayed /\ calls.a = 0
           ELSE ~fba.delayed /\ calls.a = 1
    /\ fbb.factory =>
           IF fbb.delayed THEN calls.b = 0 /\ res.op \notin BinaryOps
           ELSE calls.b = 1

\* both factories have been called and fba, which a comparison or union has
\* accessed before, is accessed again
C8_Witness ==
    /\ fba.factory /\ fbb.factory
    /\ calls = [a |-> 1, b |-> 1]
    /\ res.op = "len"
    /\ res.n = Cardinality(PFacts)

\* C9: two fact bases compare equal if and only if they hold the same facts,
\* whatever the order of insertion, the indexes and the empty FactMaps
C9_Equality == res.op = "eq" => (res.flag <=> Facts(fba) = Facts(fbb))

\* equal fact bases whose facts were inserted in another order, whose indexes
\* differ and of which only one has an empty FactMap
C9_Witness ==
    /\ res.op = "eq" /\ res.flag
    /\ fba.indexes # fbb.indexes
    /\ DOMAIN fba.factmaps # DOMAIN fbb.factmaps
    /\ \E t \in DOMAIN fba.factmaps \cap DOMAIN fbb.factmaps :
           fba.factmaps[t].factset # fbb.factmaps[t].factset

\* C10: union, intersection and difference return a fact base with the facts
\* of the set operation on the operands' facts, hence a.union(a) == a,
\* a.intersection(empty) == empty, a.difference(b).intersection(b) == empty
C10_SetAlgebra ==
    /\ res.op = "union" => Facts(res.fb) = Facts(fba) \cup Facts(fbb)
    /\ res.op = "intersection" => Facts(res.fb) = Facts(fba) \cap Facts(fbb)
    /\ res.op = "difference" => Facts(res.fb) = Facts(fba) \ Facts(fbb)
    /\ ~fba.delayed /\ ~fbb.delayed =>
           /\ FBEq(FBUnion(fba, fba), fba)
           /\ FBEq(FBIntersection(fba, EmptyFB), EmptyFB)
           /\ FBEq(FBIntersection(FBDifference(fba, fbb), fbb), EmptyFB)

\* a difference that keeps the facts of a type the other operand has no
\* FactMap of and drops a fact of a type both hold
C10_Witness ==
    /\ res.op = "difference"
    /\ Facts(res.fb) # {}
    /\ Facts(res.fb) # Facts(fba)
    /\ \E t \in DOMAIN fba.factmaps \ DOMAIN fbb.factmaps :
           fm_bool(res.fb.factmaps[t])

\* C11: a.symmetric_difference(b) raises no error, whichever types have a
\* FactMap in a, in b or in both, and holds a fact if and only if exactly one
\* of a and b holds it
C11_SymmetricDifference ==
    res.op = "symmetric_difference" =>
        /\ res.err = "none"
        /\ Facts(res.fb) = (Facts(fba) \ Facts(fbb)) \cup (Facts(fbb) \ Facts(fba))

\* C12: a <= b if and only if every fact of a is a fact of b, and a >= b if
\* and only if b <= a
C12_SubsetOrder ==
    /\ res.op = "le" => (res.flag <=> Facts(fba) \subseteq Facts(fbb))
    /\ res.op = "ge" => (res.flag <=> Facts(fbb) \subseteq Facts(fba))

\* C13: a < b if and only if every fact of a is in b and b holds a fact that
\* a does not, of whatever type, and a > b if and only if b < a
C13_StrictOrder ==
    /\ res.op = "lt" =>
           (res.flag <=> /\ Facts(fba) \subseteq Facts(fbb)
                         /\ Facts(fba) # Facts(fbb))
    /\ res.op = "gt" =>
           (res.flag <=> /\ Facts(fbb) \subseteq Facts(fba)
                         /\ Facts(fbb) # Facts(fba))

\* C14: the fact base that union, intersection, difference,
\* symmetric_difference or copy returns has the index configuration of the
\* receiver: its FactMaps index the paths the receiver's FactMaps index, its
\* index list is the receiver's, and no path that only the right-hand operand
\* indexes is indexed in it
C14_ResultIndexes ==
    (/\ res.op \in {"union", "intersection", "difference",
                     "symmetric_difference", "copy"}
     /\ res.err = "none")
    => /\ res.fb.indexes = fba.indexes
       /\ \A t \in DOMAIN res.fb.factmaps :
              res.fb.factmaps[t].index =
                  IF t \in DOMAIN fba.factmaps THEN fba.factmaps[t].index
                  ELSE <<>>

\* ---------------------------------------------------------------------------
\* Properties of the query objects
\* ---------------------------------------------------------------------------

ClauseOps ==
    {"join", "where", "order_by", "group_by", "select", "unique", "tuple",
     "bind", "heuristic"}

\* C15: every clause method of a query object returns a new query object and
\* leaves the receiver as it was
C15_NewQueryObject ==
    [][(qres'.op \in ClauseOps /\ qres'.err = "none")
       => (~qres'.same /\ query' = query)]_vars

\* the select and delete queries of FactBase.select and FactBase.delete
SelectDeleteClasses == {"SelectImpl", "Delete", "OldSelect", "OldDelete"}

C17_GroupBy ==
    [][(qres'.op = "group_by" /\ qres'.err = "none")
       => /\ query.qspec.order_by # <<>>
          /\ 1 <= qres'.grouping
          /\ qres'.grouping <= Len(query.qspec.order_by[1])
          /\ qres'.obj.qspec.group_by =
                 <<SubSeq(query.qspec.order_by[1], 1, qres'.grouping)>>]_vars

GuardedOps ==
    {"where", "order_by", "group_by", "select", "unique", "tuple", "bind"}
    \cup TerminalOps

\* C18: on a query over two root types every clause and terminal operation
\* but join and heuristic fails while join is not declared; on a query over
\* one root type, or once join is declared, none fails for want of a join
C18_JoinFirst ==
    [][(qres'.op \in GuardedOps /\ query.cls = "QueryImpl")
       => IF query.qspec.roots > 1 /\ query.qspec.join = <<>>
          THEN qres'.err = "join first" /\ query' = query
          ELSE qres'.err # "join first"]_vars

\* count() was refused on a query over two root types that has a heuristic
\* and no join
C18_Witness ==
    /\ qres.op = "count"
    /\ qres.err = "join first"
    /\ query.qspec.roots > 1
    /\ query.qspec.heuristic # <<>>

\* ---------------------------------------------------------------------------
\* Properties of the placeholders
\* ---------------------------------------------------------------------------

\* the placeholder of a call has no value: a positional placeholder beyond
\* the positional arguments, or a named placeholder without keyword argument
\* and without default
Unbound(call) ==
    LET ph == call.cond.value
    IN  \/ ph.ph = "positional" /\ ph.posn >= Len(call.args)
        \/ /\ ph.ph = "named"
           /\ ph.name \notin DOMAIN call.kwargs
           /\ ph.default = <<>>

\* C19: executing a query whose placeholder has no value raises an error,
\* returns no record and leaves the fact base as it was
C19_UnboundPlaceholder ==
    [][(last'.op \in {"select_args", "delete_args"} /\ Unbound(last'.where))
       => /\ last'.err = "TypeError"
          /\ last'.ret = {}
          /\ last'.n = 0
          /\ allfacts' = allfacts
          /\ findexes' = findexes]_vars

\* a delete with the placeholder ph2_ was executed with one positional
\* argument on a fact base that holds facts
C19_Witness ==
    /\ last.op = "delete_args"
    /\ last.err = "TypeError"
    /\ last.where.cond.value = PositionalPlaceholder(1)
    /\ Len(last.where.args) = 1
    /\ allfacts # {}

\* C20: a query with a named placeholder with default d returns, called
\* without a value for it, what it returns called with d for it, with and
\* without index; a value given for it overrides the default
C20_PlaceholderDefault ==
    (/\ last.op = "select_args"
     /\ last.where.cond.value.ph = "named"
     /\ last.where.cond.value.default # <<>>)
    => LET call == last.where
           ph == call.cond.value
       IN  IF ph.name \notin DOMAIN call.kwargs
           THEN /\ last.err = "none"
                /\ last.ret =
                       SelectGetArgs(allfacts, index, findexes, call.cond,
                                     call.args,
                                     [name \in {ph.name} |-> ph.default[1]]).ret
           ELSE /\ last.err = "none"
                /\ last.ret =
                       SelectGet(allfacts, index, findexes,
                                 [call.cond EXCEPT !.value = call.kwargs[ph.name]])

\* a query on an indexed fact base with default 0 was called with the value 1
\* and returned some of the facts but not all
C20_Witness ==
    /\ last.op = "select_args"
    /\ last.where.cond.value = NamedPlaceholder("v", <<0>>)
    /\ last.where.kwargs = [name \in {"v"} |-> 1]
    /\ index = <<"a">>
    /\ last.ret # {}
    /\ last.ret # allfacts

\* ---------------------------------------------------------------------------
\* The terminal operations that expect one result: QueryImpl.singleton and
\* SelectImpl.get_unique (src/clorm/orm/factbase.py), _Select.get_unique
\* (src/clorm/orm.py).  The query object is modelled by the sequence of
\* values its execution yields.
\* ---------------------------------------------------------------------------

\* the longest result of a query
MaxOut == 3

\* a value a query yields: a fact of a predicate with arity fields (t =
\* "fact"), or a projected number n (t = "int") or string s (t = "str")
Out(t, n, s, arity) == [t |-> t, n |-> n, s |-> s, arity |-> arity]

OutValues ==
    {Out("int", n, "", 0) : n \in {0, 1}}
        \cup {Out("str", 0, s, 0) : s \in {"", "x"}}
        \cup {Out("fact", n, "", 1) : n \in {0, 1}}
        \cup {Out("fact", 0, "", 0)}

\* the truth value Python gives a result: a number is true unless 0, a
\* string unless empty, a fact unless its predicate has no field
\* (Predicate.__bool__)
truth(out) ==
    CASE out.t = "int" -> out.n # 0
      [] out.t = "str" -> out.s # ""
      [] OTHER         -> out.arity > 0

RECURSIVE singleton_loop(_, _, _)
\* found = None; for out in qe.all(): if found: raise ...; found = out
\* (found is <<>> for None)
singleton_loop(outs, i, found) ==
    IF i > Len(outs) THEN [err |-> "none", found |-> found]
    ELSE IF found # <<>> /\ truth(found[1])
         THEN [err |-> "ValueError", found |-> <<>>]
         ELSE singleton_loop(outs, i + 1, <<outs[i]>>)

\* QueryImpl.singleton() of a query with one root
QueryImplSingleton(outs) == singleton_loop(outs, 1, <<>>)

\* SelectImpl.get_unique() without arguments
SelectImplGetUnique(outs) == singleton_loop(outs, 1, <<>>)

RECURSIVE get_unique_loop(_, _, _, _)
\* _Select.get_unique of src/clorm/orm.py: counts the facts of get()
get_unique_loop(result, i, fact, count) ==
    IF i > Len(result)
    THEN IF count = 0 THEN [err |-> "ValueError", found |-> <<>>]
         ELSE [err |-> "none", found |-> fact]
    ELSE IF count + 1 > 1 THEN [err |-> "ValueError", found |-> <<>>]
         ELSE get_unique_loop(result, i + 1, <<result[i]>>, count + 1)

OldSelectGetUnique(result) == get_unique_loop(result, 1, <<>>, 0)

\* the results of at most MaxOut values
OutSeqs == UNION {[1..n -> OutValues] : n \in 0..MaxOut}

\* the classes with a terminal operation that expects one result; a _Select
\* of src/clorm/orm.py yields facts of a predicate with fields
SingleQueries ==
    {[cls |-> c, outs |-> o] : c \in {"QueryImpl", "SelectImpl"}, o \in OutSeqs}
        \cup {[cls |-> "OldSelect", outs |-> o] :
                  o \in {s \in OutSeqs :
                            \A i \in DOMAIN s : s[i].t = "fact" /\ s[i].arity > 0}}

\* the terminal operation last called: its name, the values the query
\* yields, the error raised and the value returned (<<>> for None)
SRes(op, outs, r) == [op |-> op, outs |-> outs, err |-> r.err, found |-> r.found]

InitSG ==
    /\ query \in SingleQueries
    /\ qres = NoQRes
    /\ IdleFM
    /\ IdleFB

Singleton ==
    /\ query.cls = "QueryImpl"
    /\ qres' = SRes("singleton", query.outs, QueryImplSingleton(query.outs))
    /\ UNCHANGED <<fmvars, fbvars, query>>

GetUnique ==
    /\ query.cls = "SelectImpl"
    /\ qres' = SRes("get_unique", query.outs, SelectImplGetUnique(query.outs))
    /\ UNCHANGED <<fmvars, fbvars, query>>

OldGetUnique ==
    /\ query.cls = "OldSelect"
    /\ qres' = SRes("get_unique", query.outs, OldSelectGetUnique(query.outs))
    /\ UNCHANGED <<fmvars, fbvars, query>>

NextSG ==
    \/ Singleton
    \/ GetUnique
    \/ OldGetUnique

SpecSG == InitSG /\ [][NextSG]_vars

\* C21: singleton() and get_unique() of a query that yields nothing raise an
\* error; they return no value, not even None
C21_EmptyResult ==
    (qres.op \in {"singleton", "get_unique"} /\ qres.outs = <<>>)
    => qres.err # "none"

\* C22: singleton() and get_unique() of a query that yields more than one
\* value raise an error, whatever the values are
C22_AmbiguousResult ==
    (qres.op \in {"singleton", "get_unique"} /\ Len(qres.outs) > 1)
    => qres.err # "none"

\* ---------------------------------------------------------------------------
\* _Select.order_by and the sort of _Select.get (src/clorm/orm.py)
\* ---------------------------------------------------------------------------

\* FieldOrderBy.compare
FieldOrderByCompare(ford, a, b) ==
    LET va == FieldPathEval(ford.path, a)
        vb == FieldPathEval(ford.path, b)
    IN  IF va = vb THEN 0
        ELSE IF ford.asc /\ va < vb THEN -1
        ELSE IF ~ford.asc /\ va > vb THEN -1
        ELSE 1

\* mycmp of _Select.order_by from the key at position i on: the first
\* FieldOrderBy that does not compare equal decides
RECURSIVE mycmp(_, _, _, _)
mycmp(field_orders, a, b, i) ==
    IF i > Len(field_orders) THEN 0
    ELSE LET value == FieldOrderByCompare(field_orders[i], a, b)
         IN  IF value = 0 THEN mycmp(field_orders, a, b, i + 1)
             ELSE value

\* list.insert at the place a stable sort gives x in the sorted list: after
\* the elements that are not greater than x under cmp_to_key(mycmp)
insort_key(sorted, x, field_orders) ==
    LET posn == Cardinality({i \in 1..Len(sorted) :
                                mycmp(field_orders, x, sorted[i], 1) >= 0})
    IN  SubSeq(sorted, 1, posn) \o <<x>> \o SubSeq(sorted, posn + 1, Len(sorted))

\* result.sort(key=self._key)
RECURSIVE list_sort(_, _, _, _)
list_sort(result, field_orders, i, sorted) ==
    IF i > Len(result) THEN sorted
    ELSE list_sort(result, field_orders, i + 1,
                   insort_key(sorted, result[i], field_orders))

\* the orders in which a loop can meet the facts of a set
Enumerations(S) ==
    {s \in [1..Cardinality(S) -> S] : \A f \in S : \E i \in DOMAIN s : s[i] = f}

\* the arguments of order_by: F.a, desc(F.a), F.b, desc(F.b), and pairs
FieldOrders ==
    LET ford == [path : Paths, asc : BOOLEAN]
    IN  {<<x>> : x \in ford}
            \cup {p \in ford \X ford : p[1].path # p[2].path}

\* the where clauses of the ordered queries
OrderedWheres ==
    {NoWhere} \cup {w \in Wheres : /\ w.path = "a"
                                  /\ w.op \in {"ge", "lt"}
                                  /\ w.value \in {0, 1}}

\* the facts of the ordered queries: F(0,0), F(0,1), F(1,0)
OrderedFacts == {f \in FFacts : f.a + f.b <= 1}

\* FactBase.select(F).where(where).order_by(*field_orders): the _Select
OldSelect(where, field_orders) ==
    [cls |-> "OldSelect", where |-> where, order_by |-> field_orders]

\* _Select.get of a query with an order_by clause; result is the list
\* before the sort, in the order the loop over the facts built it
SelectGetOrdered(result, field_orders) == list_sort(result, field_orders, 1, <<>>)

InitOB ==
    /\ allfacts = {}
    /\ index \in {<<>>, <<"a">>}
    /\ findexes = NewFindexes(index)
    /\ last = NoOp
    /\ IdleFB
    /\ IdleQB

\* FactBase.select(F).where(where).order_by(*field_orders).get()
SelectOrderBy(where, field_orders) ==
    \E result \in Enumerations(SelectGet(allfacts, index, findexes, where)) :
        /\ query' = OldSelect(where, field_orders)
        /\ qres' = [op |-> "get", err |-> "none",
                    ret |-> SelectGetOrdered(result, field_orders)]
        /\ last' = Last("select_order_by", NoFact, FALSE, "none", where, {}, 0)
        /\ UNCHANGED <<allfacts, index, findexes, fbvars>>

NextOB ==
    \/ \E fact \in OrderedFacts : FactBaseAdd(fact)
    \/ \E where \in OrderedWheres, field_orders \in FieldOrders :
           SelectOrderBy(where, field_orders)

SpecOB == InitOB /\ [][NextOB]_vars

\* a comes before b under the order_by keys: on the first key on which they
\* differ a has the smaller value if that key is ascending, the greater if
\* it is descending
Precedes(field_orders, a, b) ==
    \E k \in DOMAIN field_orders :
        /\ \A j \in 1..(k - 1) :
               FieldPathEval(field_orders[j].path, a)
                   = FieldPathEval(field_orders[j].path, b)
        /\ IF field_orders[k].asc
           THEN FieldPathEval(field_orders[k].path, a)
                    < FieldPathEval(field_orders[k].path, b)
           ELSE FieldPathEval(field_orders[k].path, a)
                    > FieldPathEval(field_orders[k].path, b)

\* a and b agree on every order_by key
SameKeys(field_orders, a, b) ==
    \A k \in DOMAIN field_orders :
        FieldPathEval(field_orders[k].path, a) = FieldPathEval(field_orders[k].path, b)

\* the comparator of the query decides by the first key on which two facts
\* differ and reports equal exactly when they agree on every key
ComparatorByKeys(field_orders) ==
    \A a \in allfacts, b \in allfacts :
        /\ mycmp(field_orders, a, b, 1) = 0 <=> SameKeys(field_orders, a, b)
        /\ mycmp(field_orders, a, b, 1) = -1 <=> Precedes(field_orders, a, b)
        /\ mycmp(field_orders, a, b, 1) = 1 <=> Precedes(field_orders, b, a)

\* no fact of the list comes after a fact it precedes
SortedByKeys(field_orders, ret) ==
    \A i \in DOMAIN ret, j \in DOMAIN ret :
        i < j => ~Precedes(field_orders, ret[j], ret[i])

\* ret lists every fact of S once
PermutationOf(ret, S) ==
    /\ Len(ret) = Cardinality(S)
    /\ Range(ret) = S

\* C23: the result of a select with order_by keys is a permutation of the
\* matching facts, sorted by the composite comparator: the first key on
\* which two facts differ decides (reversed for a descending key), and the
\* comparator reports equal exactly when the facts agree on every key
C23_OrderBy ==
    last.op = "select_order_by"
    => /\ PermutationOf(qres.ret,
                        {f \in allfacts :
                            query.where.kind = "none" \/ ComparatorCall(query.where, f)})
       /\ SortedByKeys(query.order_by, qres.ret)
       /\ ComparatorByKeys(query.order_by)

\* the result of a select with order_by keys is a permutation of the facts
\* the select returns without the order_by clause, sorted by the keys
C23_OrderBySelected ==
    last.op = "select_order_by"
    => /\ PermutationOf(qres.ret,
                        SelectGet(allfacts, index, findexes, query.where))
       /\ SortedByKeys(query.order_by, qres.ret)
       /\ ComparatorByKeys(query.order_by)

\* a select ordered by F.a descending, then F.b ascending, returned three
\* facts
C23_Witness ==
    /\ last.op = "select_order_by"
    /\ query.order_by = <<[path |-> "a", asc |-> FALSE], [path |-> "b", asc |-> TRUE]>>
    /\ Len(qres.ret) = 3

\* ---------------------------------------------------------------------------
\* Where clauses that are trees (src/clorm/orm.py): FieldQueryComparator,
\* StaticComparator and BoolComparator, their simplification in
\* _Select.where, and the choice of the index in _Select._primary_search.
\*
\* A node is a record: kind "cmp" for "path op value", "cmpf" for the
\* comparison of two fields "path op path2", "static" for a
\* StaticComparator with the value static, "and", "or", "not" for a
\* BoolComparator over args, "none" for None.
\* ---------------------------------------------------------------------------

Cond(kind, op, path, path2, value, static, args) ==
    [kind |-> kind, op |-> op, path |-> path, path2 |-> path2, value |-> value,
     static |-> static, args |-> args]

NoCond == Cond("none", "eq", "a", "", 0, FALSE, <<>>)

\* StaticComparator.__init__
StaticComparator(value) == Cond("static", "eq", "a", "", 0, value, <<>>)

\* BoolComparator.__init__ (and_, or_, not_)
BoolComparator(boolop, args) == Cond(boolop, "eq", "a", "", 0, FALSE, args)

\* FieldQueryComparator.__init__: self._static, for a comparison of a field
\* with itself
IsStatic(c) == c.kind = "cmpf" /\ c.path = c.path2

\* FieldQueryComparator.__init__: self._value = compop(1,1)
StaticValue(c) == compop(c.op, 1, 1)

RECURSIVE CondCall(_, _)
\* Comparator.__call__(fact) of the three classes
CondCall(c, fact) ==
    CASE c.kind = "static" -> c.static
      [] c.kind = "cmp"    -> compop(c.op, FieldPathEval(c.path, fact), c.value)
      [] c.kind = "cmpf"   ->
             IF IsStatic(c) THEN StaticValue(c)
             ELSE compop(c.op, FieldPathEval(c.path, fact),
                         FieldPathEval(c.path2, fact))
      [] c.kind = "not"    -> ~CondCall(c.args[1], fact)
      [] c.kind = "and"    -> \A i \in DOMAIN c.args : CondCall(c.args[i], fact)
      [] c.kind = "or"     -> \E i \in DOMAIN c.args : CondCall(c.args[i], fact)

\* isinstance(sarg, StaticComparator) does not hold
NotStaticComparator(c) == c.kind # "static"

RECURSIVE simplify_fact_comparator(_)
\* BoolComparator.simplified: a static argument ends the simplification of
\* a not; under and, or it is left out of newargs, whatever its value
BoolComparatorSimplified(c) ==
    LET sargs == [i \in DOMAIN c.args |-> simplify_fact_comparator(c.args[i])]
        newargs == SelectSeq(sargs, NotStaticComparator)
    IN  IF c.kind = "not" /\ sargs[1].kind = "static"
        THEN StaticComparator(~sargs[1].static)
        ELSE IF newargs = <<>> /\ c.kind = "and" THEN StaticComparator(TRUE)
        ELSE IF newargs = <<>> /\ c.kind = "or" THEN StaticComparator(FALSE)
        ELSE IF c.kind # "not" /\ Len(newargs) = 1 THEN newargs[1]
        ELSE BoolComparator(c.kind, newargs)

\* FieldQueryComparator.simplified
FieldQueryComparatorSimplified(c) ==
    IF IsStatic(c) THEN StaticComparator(StaticValue(c)) ELSE c

\* _simplify_fact_comparator: comparator.simplified(), and the comparator
\* itself for a StaticComparator, which has no method of that name
simplify_fact_comparator(c) ==
    CASE c.kind \in {"and", "or", "not"} -> BoolComparatorSimplified(c)
      [] c.kind \in {"cmp", "cmpf"}      -> FieldQueryComparatorSimplified(c)
      [] OTHER                           -> c

\* FieldQueryComparator.indexable (NoCond stands for None)
FieldQueryComparatorIndexable(c) ==
    IF IsStatic(c) \/ c.kind = "cmpf" THEN NoCond ELSE c

\* self._index_priority[path]: the position of the path in factmap.indexes
index_priority(idx, path) == CHOOSE p \in DOMAIN idx : idx[p] = path

\* _Select._primary_search: validate_indexable
validate_indexable(idx, ixable) ==
    IF ixable.kind = "none" THEN NoCond
    ELSE IF ixable.path \notin Range(idx) THEN NoCond
    ELSE ixable

RECURSIVE primary_search_first(_, _)
RECURSIVE primary_search_first_args(_, _, _, _)
\* the loop of _primary_search that keeps the first indexable comparison
primary_search_first_args(idx, args, i, ixable) ==
    IF i > Len(args) THEN ixable
    ELSE LET tmp == primary_search_first(idx, args[i])
         IN  primary_search_first_args(idx, args, i + 1,
                 IF tmp.kind # "none" /\ ixable.kind = "none" THEN tmp ELSE ixable)

\* _primary_search without the comparison of the index priorities
primary_search_first(idx, where) ==
    IF where.kind \in {"cmp", "cmpf"}
    THEN validate_indexable(idx, FieldQueryComparatorIndexable(where))
    ELSE IF where.kind = "and"
         THEN primary_search_first_args(idx, where.args, 1, NoCond)
         ELSE NoCond

RECURSIVE primary_search_tree(_, _)
RECURSIVE primary_search_args(_, _, _, _)
\* _Select._primary_search: the loop over the arguments of an and
primary_search_args(idx, args, i, ixable) ==
    IF i > Len(args) THEN ixable
    ELSE LET tmp == primary_search_tree(idx, args[i])
         IN  primary_search_args(idx, args, i + 1,
                 IF tmp.kind = "none" THEN ixable
                 ELSE IF ixable.kind = "none" THEN tmp
                 ELSE IF index_priority(idx, tmp.path)
                             < index_priority(idx, ixable.path) THEN tmp
                 ELSE ixable)

\* _Select._primary_search
primary_search_tree(idx, where) ==
    IF where.kind \in {"cmp", "cmpf"}
    THEN validate_indexable(idx, FieldQueryComparatorIndexable(where))
    ELSE IF where.kind = "and"
         THEN primary_search_args(idx, where.args, 1, NoCond)
         ELSE NoCond

\* _Select.where(*expressions): self._where and self._indexable
OldSelectWhereTree(idx, expression) ==
    LET where == simplify_fact_comparator(expression)
    IN  [cls |-> "OldSelect", expression |-> expression, where |-> where,
         indexable |-> primary_search_tree(idx, where)]

\* _Select.get() after where: the facts of the result list
SelectGetTree(facts, fxs, self) ==
    IF self.indexable.kind = "none"
    THEN {f \in facts : CondCall(self.where, f)}
    ELSE {f \in find(fxs[self.indexable.path], self.indexable.op,
                     self.indexable.value) : CondCall(self.where, f)}

\* the comparisons: F.a == 0, F.a >= 1, F.b == 0, F.a == F.a, F.a != F.a,
\* F.a == F.b
Comparisons ==
    {Cond("cmp", "eq", "a", "", 0, FALSE, <<>>),
     Cond("cmp", "ge", "a", "", 1, FALSE, <<>>),
     Cond("cmp", "eq", "b", "", 0, FALSE, <<>>),
     Cond("cmpf", "eq", "a", "a", 0, FALSE, <<>>),
     Cond("cmpf", "ne", "a", "a", 0, FALSE, <<>>),
     Cond("cmpf", "eq", "a", "b", 0, FALSE, <<>>)}

\* the comparisons of the nested conditions: F.a == 0 and F.a != F.a inside,
\* F.b == 0 and F.a != F.a outside
InnerComparisons ==
    {c \in Comparisons : c.path = "a" /\ c.value = 0 /\ c.op \in {"eq", "ne"}
                         /\ (c.kind = "cmpf" => c.op = "ne")}

OuterComparisons ==
    {c \in Comparisons : \/ c.kind = "cmp" /\ c.path = "b"
                         \/ c.kind = "cmpf" /\ c.op = "ne"}

\* and_, or_ of a condition of X and one of Y
BoolOver(X, Y) ==
    {BoolComparator(op, <<x, y>>) : op \in {"and", "or"}, x \in X, y \in Y}

\* the condition trees: a comparison, not_ of a comparison, and_ and or_ of
\* two comparisons, and and_, or_, not_ over and_, or_, not_ of the inner
\* comparisons
Conditions ==
    LET inner == BoolOver(InnerComparisons, InnerComparisons)
        nots  == {BoolComparator("not", <<x>>) : x \in InnerComparisons}
    IN  Comparisons
            \cup {BoolComparator("not", <<x>>) : x \in Comparisons}
            \cup BoolOver(Comparisons, Comparisons)
            \cup BoolOver(OuterComparisons, inner \cup nots)
            \cup {BoolComparator("and", <<x, y>>) : x \in inner, y \in OuterComparisons}
            \cup {BoolComparator("not", <<x>>) : x \in inner}

InitW ==
    /\ allfacts = {}
    /\ index \in IndexLists
    /\ findexes = NewFindexes(index)
    /\ last = NoOp
    /\ IdleFB
    /\ IdleQB

\* FactBase.select(F).where(expression).get()
SelectWhere(expression) ==
    LET self == OldSelectWhereTree(index, expression)
    IN  /\ query' = self
        /\ qres' = [op |-> "get", err |-> "none",
                    ret |-> SelectGetTree(allfacts, findexes, self)]
        /\ last' = Last("select_where", NoFact, FALSE, "none", NoWhere, {}, 0)
        /\ UNCHANGED <<allfacts, index, findexes, fbvars>>

\* the fact base is filled before it is queried
Populate(fact) ==
    /\ IdleQB
    /\ FactBaseAdd(fact)

NextW ==
    \/ \E fact \in OrderedFacts : Populate(fact)
    \/ \E expression \in Conditions : SelectWhere(expression)

SpecW == InitW /\ [][NextW]_vars

RECURSIVE ConjunctLeaves(_)
\* the comparisons of a condition that are reached through and_ only
ConjunctLeaves(c) ==
    CASE c.kind = "and" -> UNION {ConjunctLeaves(c.args[i]) : i \in DOMAIN c.args}
      [] c.kind \in {"cmp", "cmpf"} -> {c}
      [] OTHER -> {}

RECURSIVE Leaves(_)
\* the comparisons of a condition
Leaves(c) ==
    CASE c.kind \in {"and", "or", "not"} ->
             UNION {Leaves(c.args[i]) : i \in DOMAIN c.args}
      [] c.kind \in {"cmp", "cmpf"} -> {c}
      [] OTHER -> {}

RECURSIVE Conjunctive(_)
\* the condition is a comparison or a conjunction, nested or not, of
\* comparisons
Conjunctive(c) ==
    CASE c.kind = "and" -> \A i \in DOMAIN c.args : Conjunctive(c.args[i])
      [] c.kind \in {"cmp", "cmpf"} -> TRUE
      [] OTHER -> FALSE

\* the comparisons of a field with a value, on a path of the index list
Servable(S, idx) == {c \in S : c.kind = "cmp" /\ c.path \in Range(idx)}

\* C24: for a conjunction of comparisons, nested or not, the pre-filter is
\* one of its comparisons that the index can serve, on the path declared
\* earliest among theirs; a where clause without a comparison on an indexed
\* path has no pre-filter and its result is that of the scan of all facts
C24_PrimarySearch ==
    last.op = "select_where"
    => LET served == Servable(ConjunctLeaves(query.expression), index)
       IN  /\ (Conjunctive(query.expression) /\ served # {})
               => /\ query.indexable \in served
                  /\ \A c \in served :
                         index_priority(index, query.indexable.path)
                             <= index_priority(index, c.path)
           /\ Servable(Leaves(query.expression), index) = {}
               => /\ query.indexable = NoCond
                  /\ qres.ret = {f \in allfacts : CondCall(query.where, f)}

\* a select of and_(F.b == 0, and_(F.a != F.a, F.a == 0)) on a fact base
\* with the indexes F.a, F.b took F.a == 0 as pre-filter
C24_Witness ==
    /\ last.op = "select_where"
    /\ index = <<"a", "b">>
    /\ query.expression.kind = "and"
    /\ query.expression.args[1] = Cond("cmp", "eq", "b", "", 0, FALSE, <<>>)
    /\ query.expression.args[2].kind = "and"
    /\ query.indexable = Cond("cmp", "eq", "a", "", 0, FALSE, <<>>)
    /\ allfacts # {}

\* C25: the simplified condition has the truth value of the condition on
\* every fact, and the select returns the facts that satisfy the condition
C25_Simplified ==
    last.op = "select_where"
    => /\ \A f \in FFacts :
              CondCall(query.where, f) = CondCall(query.expression, f)
       /\ qres.ret = {f \in allfacts : CondCall(query.expression, f)}

\* ---------------------------------------------------------------------------
\* One _FactIndex on field a, called directly (src/clorm/orm.py)
\* ---------------------------------------------------------------------------

\* the facts the index holds
Indexed(ix) == UNION {ix.key2values[k] : k \in DOMAIN ix.key2values}

\* _FactIndex(F.a)
InitFI ==
    /\ allfacts = {}
    /\ index = <<"a">>
    /\ findexes = NewFindexes(index)
    /\ last = NoOp
    /\ IdleFB
    /\ IdleQB

\* findex.add(fact)
IndexAdd(fact) ==
    LET r == FactIndexAdd("a", findexes["a"], fact)
    IN  /\ findexes' = [findexes EXCEPT !["a"] = r.ix]
        /\ last' = Last("index_add", fact, fact \in Indexed(findexes["a"]), r.err,
                        NoWhere, {}, 0)
        /\ UNCHANGED <<allfacts, index, fbvars, qbvars>>

\* findex.remove(fact)
IndexRemove(fact) ==
    LET r == FactIndexRemove("a", findexes["a"], fact, TRUE)
    IN  /\ findexes' = [findexes EXCEPT !["a"] = r.ix]
        /\ last' = Last("index_remove", fact, fact \in Indexed(findexes["a"]), r.err,
                        NoWhere, {}, 0)
        /\ UNCHANGED <<allfacts, index, fbvars, qbvars>>

\* findex.discard(fact)
IndexDiscard(fact) ==
    LET r == FactIndexRemove("a", findexes["a"], fact, FALSE)
    IN  /\ findexes' = [findexes EXCEPT !["a"] = r.ix]
        /\ last' = Last("index_discard", fact, fact \in Indexed(findexes["a"]), r.err,
                        NoWhere, {}, 0)
        /\ UNCHANGED <<allfacts, index, fbvars, qbvars>>

\* findex.clear()
IndexClear ==
    /\ findexes' = [findexes EXCEPT !["a"] = EmptyIndex]
    /\ last' = Last("index_clear", NoFact, FALSE, "none", NoWhere, {}, 0)
    /\ UNCHANGED <<allfacts, index, fbvars, qbvars>>

NextFI ==
    \/ \E fact \in AnyFacts : IndexAdd(fact)
    \/ \E fact \in AnyFacts : IndexRemove(fact)
    \/ \E fact \in AnyFacts : IndexDiscard(fact)
    \/ IndexClear

SpecFI == InitFI /\ [][NextFI]_vars

\* C26: the key list of a Fact Index is strictly increasing, its keys are
\* the keys that have a bucket, and no bucket is empty
C26_KeyList ==
    LET ix == findexes["a"]
    IN  /\ \A i \in DOMAIN ix.keylist, j \in DOMAIN ix.keylist :
               i < j => ix.keylist[i] < ix.keylist[j]
        /\ Range(ix.keylist) = DOMAIN ix.key2values
        /\ \A k \in DOMAIN ix.key2values : ix.key2values[k] # {}

\* the last fact with the key 1 was removed from an index that holds the
\* keys 0 and 2, one of them with two facts
C26_Witness ==
    /\ last.op \in {"index_remove", "index_discard"}
    /\ last.stored
    /\ last.fact.a = 1
    /\ findexes["a"].keylist = <<0, 2>>
    /\ \E k \in DOMAIN findexes["a"].key2values :
           Cardinality(findexes["a"].key2values[k]) = 2

\* ---------------------------------------------------------------------------
\* Properties of the in-place set operations of a FactBase
\* ---------------------------------------------------------------------------

\* what the operation that makes a new FactBase gives for the in-place
\* operation op: the error it raises and the FactBase it returns
NotInPlace(op, self, other) ==
    CASE op = "update" -> [err |-> "none", fb |-> FBUnion(self, other)]
      [] op = "intersection_update" ->
             [err |-> "none", fb |-> FBIntersection(self, other)]
      [] op = "difference_update" ->
             [err |-> "none", fb |-> FBDifference(self, other)]
      [] op = "symmetric_difference_update" -> FBSymmetricDifference(self, other)

\* after the in-place operation op, fba equals what the operation that makes
\* a new FactBase returns for the fba and fbb before, and fbb is as before
InPlaceAgrees(op) ==
    res'.op = op
    => /\ NotInPlace(op, fba, fbb).err = "none"
       /\ FBEq(fba', NotInPlace(op, fba, fbb).fb)
       /\ fbb' = fbb

\* C27: each in-place set operation leaves in the receiver what the
\* operation that makes a new FactBase returns, and leaves the other
\* operand as it was; the operations that make a new FactBase leave both
\* operands as they were
C27_InPlace ==
    [][/\ \A op \in InPlaceOps : InPlaceAgrees(op)
       /\ res'.op \in {"union", "intersection", "difference", "symmetric_difference"}
           => fba' = fba /\ fbb' = fbb]_vars

\* the same without symmetric_difference_update
C27_InPlaceOthers ==
    [][/\ \A op \in InPlaceOps \ {"symmetric_difference_update"} : InPlaceAgrees(op)
       /\ res'.op \in {"union", "intersection", "difference", "symmetric_difference"}
           => fba' = fba /\ fbb' = fbb]_vars

\* ---------------------------------------------------------------------------
\* Properties of a _FactMap.add that raises
\* ---------------------------------------------------------------------------

\* C28: an add to a Fact Map that raises leaves the Fact Set and every Fact
\* Index as they were
C28_AddRaises ==
    [][(last'.op = "add" /\ last'.err # "none")
       => allfacts' = allfacts /\ findexes' = findexes]_vars

\* ---------------------------------------------------------------------------
\* The executions of a _Select (src/clorm/orm.py): get, get_unique, count
\* ---------------------------------------------------------------------------

\* _Select.get that takes the facts it returns out of the Fact Set
SelectExecuteTakesFacts(facts, idx, fxs, where) ==
    LET ret == SelectGet(facts, idx, fxs, where)
    IN  [ret |-> ret, allfacts |-> facts \ ret, findexes |-> fxs]

\* _Select.get: the facts of the list it returns, and the Fact Set and the
\* Fact Indexes after the call; get builds a list of its own from
\* _factmap.facts() or from the new set that find returns, and assigns to
\* no attribute
SelectExecute(facts, idx, fxs, where) ==
    [ret |-> SelectGet(facts, idx, fxs, where), allfacts |-> facts, findexes |-> fxs]

ReadOps == {"get", "get_unique", "count"}

\* _Select.get_unique: the error for a result that is not of one fact
GetUniqueErr(ret) == IF Cardinality(ret) = 1 THEN "none" ELSE "ValueError"

\* FactBase.select(F).where(where) and one of get(), get_unique(), count()
Execute(op, where) ==
    LET r == SelectExecute(allfacts, index, findexes, where)
    IN  /\ allfacts' = r.allfacts
        /\ findexes' = r.findexes
        /\ last' = Last(op, NoFact, FALSE,
                        IF op = "get_unique" THEN GetUniqueErr(r.ret) ELSE "none",
                        where,
                        IF op = "count" \/ (op = "get_unique" /\ Cardinality(r.ret) # 1)
                        THEN {} ELSE r.ret,
                        IF op = "count" THEN Cardinality(r.ret) ELSE 0)
        /\ UNCHANGED <<index, fbvars, qbvars>>

NextRO ==
    \/ \E fact \in OrderedFacts : FactBaseAdd(fact)
    \/ \E op \in ReadOps, where \in OrderedWheres : Execute(op, where)

SpecRO == InitOB /\ [][NextRO]_vars

MaxWidth == 18

\* str(n) for a number of one digit
Digits == <<"0", "1", "2", "3", "4", "5", "6", "7", "8", "9">>

\* str(fact): the predicate name, the lower-case class name, and the field
FactStr(fact) ==
    <<IF fact.ptype = "A" THEN "a" ELSE "b", "(", Digits[fact.n + 1], ")">>

RECURSIVE FBIterFrom(_, _)
\* FactBase.__iter__: the facts of the Fact Maps, one Fact Map after the
\* other
FBIterFrom(self, i) ==
    IF i > Len(TypeOrder) THEN <<>>
    ELSE (IF TypeOrder[i] \in DOMAIN self.factmaps
          THEN self.factmaps[TypeOrder[i]].factset ELSE <<>>)
             \o FBIterFrom(self, i + 1)

FBIter(self) == FBIterFrom(self, 1)

RECURSIVE format_asp_facts(_, _, _, _, _)
\* _format_asp_facts(iterator, output, width) from the fact at position i
\* on: tmp1 is the line under construction, output the lines printed
format_asp_facts(iterator, output, width, i, tmp1) ==
    IF i > Len(iterator)
    THEN IF tmp1 # <<>> THEN Append(output, tmp1) ELSE output
    ELSE LET fstr == FactStr(iterator[i]) \o <<".">>
         IN  IF tmp1 # <<>> /\ Len(tmp1) + Len(fstr) > width
             THEN format_asp_facts(iterator, Append(output, tmp1), width, i + 1, fstr)
             ELSE format_asp_facts(iterator, output, width, i + 1,
                                   IF tmp1 # <<>> THEN tmp1 \o <<" ">> \o fstr
                                   ELSE fstr)

\* self.asp_str(width=width): the lines of the string returned
FBAspStr(self, width) == format_asp_facts(FBIter(self), <<>>, width, 1, <<>>)

\* one FactBase, constructed from a list of facts
InitAS ==
    /\ IdleFM
    /\ IdleQB
    /\ fba \in {FBNew(FALSE, facts, <<>>) : facts \in FactLists}
    /\ fbb = EmptyFB
    /\ calls = [a |-> 0, b |-> 0]
    /\ res = NoRes

\* fba.asp_str(width=width)
AspStr(width) ==
    /\ res' = [op |-> "asp_str", width |-> width, out |-> FBAspStr(fba, width)]
    /\ UNCHANGED <<fmvars, qbvars, fba, fbb, calls>>

NextAS == \E width \in 1..MaxWidth : AspStr(width)

SpecAS == InitAS /\ [][NextAS]_vars

RECURSIVE Words(_, _, _)
\* the pieces of a line between its blanks, from position i on; word is the
\* piece under construction
Words(line, i, word) ==
    IF i > Len(line) THEN <<word>>
    ELSE IF line[i] = " " THEN <<word>> \o Words(line, i + 1, <<>>)
    ELSE Words(line, i + 1, Append(word, line[i]))

RECURSIVE AllWords(_, _)
\* the pieces of the lines from line i on
AllWords(out, i) ==
    IF i > Len(out) THEN <<>> ELSE Words(out[i], 1, <<>>) \o AllWords(out, i + 1)

\* C30: asp_str(width=w), w > 0, writes every fact once, in the order of the
\* iteration, each followed by '.', and no line with more than one fact is
\* longer than w
C30_AspStr ==
    res.op = "asp_str"
    => /\ AllWords(res.out, 1)
              = [i \in 1..Len(FBIter(fba)) |-> FactStr(FBIter(fba)[i]) \o <<".">>]
       /\ \A i \in DOMAIN res.out :
              Len(Words(res.out[i], 1, <<>>)) > 1 => Len(res.out[i]) <= res.width

\* the same with one character more allowed in a line
C30_AspStrWidthPlusOne ==
    res.op = "asp_str"
    => /\ AllWords(res.out, 1)
              = [i \in 1..Len(FBIter(fba)) |-> FactStr(FBIter(fba)[i]) \o <<".">>]
       /\ \A i \in DOMAIN res.out :
              Len(Words(res.out[i], 1, <<>>)) > 1 => Len(res.out[i]) <= res.width + 1

====
